---- MODULE Spec2Model ----
(***************************************************************************)
(* License / usage-integrity subsystem of DESIgui.                         *)
(*                                                                         *)
(*   usage_tracker.py       UsageTracker: buffered usage ledger, daily     *)
(*                          aggregates, background reporter, export        *)
(*   integrity_verifier.py  IntegrityVerifier: per-record checksums,       *)
(*                          whole-ledger fingerprint, suspicious flags     *)
(*   data_encryptor.py      DataEncryptor: key derivation, Fernet/base64   *)
(*   import_report_dialog.py ImportWorker: multi-key import, duplicates    *)
(*                                                                         *)
(* Text is modelled as a sequence of one-character tokens.  SHA-256, MD5   *)
(* and PBKDF2 are modelled as collision-free: a digest is the tagged       *)
(* preimage, so two digests are equal exactly when the hashed byte strings *)
(* are equal.  What is hashed (serialisation, separators, truncation) is   *)
(* modelled as the code computes it.                                       *)
(***************************************************************************)
EXTENDS Integers, Sequences, FiniteSets, TLC

(***************************************************************************)
(* Bounds of the model.                                                    *)
(***************************************************************************)
\* number of record_usage calls in one behaviour
MaxCalls == 2
\* number of clock advances in one behaviour
MaxTicks == 1
\* UsageTracker._batch_size (10 in the source), scaled down
BatchSize == 2
\* the slice pending_reports[:100] of _report_pending, scaled down
ReportBatch == 2

(***************************************************************************)
(* Program constants.                                                      *)
(***************************************************************************)
\* usage_tracker.py:350  current_time - self._last_flush_time > 60
FlushInterval == 60
\* seconds per calendar day (datetime / strftime('%Y-%m-%d'))
SecondsPerDay == 86400
\* usage_tracker.py:413  get_usage_stats(days=30)
DefaultDays == 30

\* SQL NULL / Python None in an integer column or result
NullInt == -1
\* SQL NULL / Python None where text is expected
None == <<"<None>">>

ActionTypes == {"load_sample", "export_data", "split_metabolites"}
SampleNames == {<<"a">>, <<"b">>}
\* the (action_type, sample_name) arguments record_usage is called with
UsageCalls == {<<"load_sample", <<"a">> >>, <<"export_data", <<"b">> >>,
               <<"split_metabolites", <<"a">> >>}
MachineIds == {<<"m", "1">>}
LicenseKeys == {<<"L", "1">>}
\* UsageTracker.SECRET_SEED
SECRET_SEED == <<"S", "E", "E", "D">>

VARIABLES
    proc,               \* "down" | "up": a UsageTracker object exists
    db_file,            \* usage_data.db: "none" | "garbage" | "unsound" | "db"
    backup,             \* usage_data.db.backup exists
    usage_records,      \* rows of usage_records, in rowid order
    usage_stats,        \* rows of usage_stats, keyed by date
    integrity_checks,   \* rows of integrity_checks, in rowid order
    history_schema,     \* "none" | "tracker" | "verifier": who created integrity_checks
    flag_columns,       \* suspicious_flag / suspicious_reason columns exist
    _batch_buffer,      \* UsageTracker._batch_buffer
    pending_reports,    \* UsageTracker.pending_reports
    _last_flush_time,   \* UsageTracker._last_flush_time
    machine_id,         \* identity of the host
    license_key,        \* UsageTracker.license_key
    now,                \* wall clock, seconds
    ticks,              \* clock advances so far
    next_id,            \* number of record ids issued so far
    HAS_REQUESTS,       \* the requests library could be imported
    HAS_CRYPTO,         \* the cryptography library could be imported
    out_file,           \* the file written by export_usage_report
    calls,              \* history: the record_usage calls that returned, kept
                        \*          for as long as no record has been lost
    dropped,            \* history: a record was lost with a process or a damaged store
    started_on,         \* history: the state of the store file the tracker found
    edit,               \* history: the last change made to the ledger from outside
    customers,          \* administrator: the license keys of the customers table
    admin_records,      \* administrator: the rows of its usage_records table
    file_origin,        \* history: who wrote out_file, under which seed, with what
    license_file,       \* ~/.desi_analytics/license.key: its text, None when absent
    license_config,     \* license_config.txt: the expires_at line
    integration,        \* the fields of the LicenseIntegration object
    main_thread,        \* the foreground thread: where it is in record_usage
    reporter_thread,    \* the background thread: where it is in its cycle
    workers,            \* administrator: the ImportWorker threads, where each is in run()
    ret                 \* what the last operation returned or raised

trackerVars == <<proc, db_file, backup, usage_records, usage_stats,
                 _batch_buffer, pending_reports, _last_flush_time, license_key,
                 now, ticks, next_id, HAS_REQUESTS, out_file>>
historyVars == <<calls, dropped, started_on>>
auditVars == <<integrity_checks, history_schema, flag_columns, machine_id, HAS_CRYPTO>>
adminVars == <<customers, admin_records, file_origin>>
licenseVars == <<license_file, license_config, integration>>
threadVars == <<main_thread, reporter_thread, workers>>
vars == <<trackerVars, auditVars, historyVars, edit, adminVars, licenseVars,
          threadVars, ret>>

(***************************************************************************)
(* Text helpers.                                                           *)
(***************************************************************************)
RECURSIVE JsonEscape(_, _)
\* json.dumps of the characters of a string: '"' and '\' are escaped, and
\* with ensure_ascii a non-ASCII character becomes a \uXXXX escape
JsonEscape(s, ensure_ascii) ==
    IF s = <<>> THEN <<>>
    ELSE LET c == Head(s)
             e == IF c \in {"\"", "\\"} THEN <<"\\", c>>
                  ELSE IF ensure_ascii /\ c = "é" THEN <<"\\", "u", "00e9">>
                  ELSE <<c>>
         IN e \o JsonEscape(Tail(s), ensure_ascii)

\* json.dumps of one value: a string or None
JsonValue(v, ensure_ascii) ==
    IF v = None THEN <<"null">>
    ELSE <<"\"">> \o JsonEscape(v, ensure_ascii) \o <<"\"">>

\* the keys of checksum_data in the order sort_keys=True emits them
SortedKeys == <<"action_type", "record_id", "sample_hash", "sample_name", "timestamp">>

RECURSIVE JsonItems(_, _, _)
JsonItems(data, keys, ensure_ascii) ==
    IF keys = <<>> THEN <<>>
    ELSE LET k == Head(keys)
             rest == JsonItems(data, Tail(keys), ensure_ascii)
         IN IF k \notin DOMAIN data THEN rest
            ELSE <<"\"", k, "\"", ":", " ">> \o JsonValue(data[k], ensure_ascii)
                 \o (IF rest = <<>> THEN <<>> ELSE <<",", " ">> \o rest)

\* json.dumps(data, sort_keys=True, ensure_ascii=...)
JsonDumps(data, ensure_ascii) ==
    <<"{">> \o JsonItems(data, SortedKeys, ensure_ascii) \o <<"}">>

\* hashlib.sha256(x).hexdigest(), collision-free
Sha256(x) == <<"sha256:">> \o x
\* hashlib.md5(x).hexdigest(), collision-free
Md5(x) == <<"md5:">> \o x

\* str(uuid.uuid4()): the n-th identifier issued
Uuid(n) == <<"r", ToString(n)>>
\* datetime.isoformat() of the instant t
IsoFormat(t) == <<"T", ToString(t)>>
\* strftime('%Y-%m-%d') of the instant t, as a day number
DateOf(t) == t \div SecondsPerDay

\* the first n elements of a sequence: the slice s[:n]
Take(s, n) == SubSeq(s, 1, IF Len(s) < n THEN Len(s) ELSE n)
\* the slice s[n:]
Drop(s, n) == SubSeq(s, n + 1, Len(s))

\* how many elements of a sequence satisfy a test
Count(s, Test(_)) == Cardinality({i \in DOMAIN s : Test(s[i])})

(***************************************************************************)
(* Key derivation and the cipher (usage_tracker.py, data_encryptor.py).    *)
(***************************************************************************)
\* length of the PBKDF2 salt cut from the seed
SaltLen == 16

RECURSIVE Repeat(_, _)
\* the Python expression s * n
Repeat(s, n) == IF n = 0 THEN <<>> ELSE s \o Repeat(s, n - 1)

\* DataEncryptor._create_cipher: the salt of a seed
\*   seed[:16] if len(seed) >= 16 else (seed * 16)[:16]
PaddedSalt(seed) ==
    IF Len(seed) >= SaltLen THEN Take(seed, SaltLen)
    ELSE Take(Repeat(seed, SaltLen), SaltLen)

\* an export that salts the key with the machine id
ExportSalt_MachineId(key) ==
    IF Len(machine_id) >= SaltLen THEN Take(machine_id, SaltLen)
    ELSE Take(Repeat(machine_id, SaltLen), SaltLen)

\* export_usage_report: the salt cut from the license key
\*   license_key[:16] if len(license_key) >= 16 else (license_key * 16)[:16]
ExportSalt(key) ==
    IF Len(key) >= SaltLen THEN Take(key, SaltLen)
    ELSE Take(Repeat(key, SaltLen), SaltLen)

\* PBKDF2HMAC(SHA256, salt, 100000).derive(SECRET_SEED): the Fernet key,
\* collision-free in the salt
DeriveKey(salt) == <<"pbkdf2:">> \o salt

\* Fernet(key).encrypt(plain): authenticated ciphertext
FernetEncrypt(key, plain) == [scheme |-> "fernet", key |-> key, plain |-> plain]
\* base64.b64encode(plain)
Base64Encode(plain) == [scheme |-> "base64", plain |-> plain]

\* UsageTracker._init_cipher / cipher: None without the crypto backend,
\* else a Fernet key salted with machine_id[:16]
cipher == IF ~HAS_CRYPTO THEN None ELSE DeriveKey(Take(machine_id, SaltLen))

\* UsageTracker._encrypt
_encrypt(data) ==
    IF cipher # None THEN FernetEncrypt(cipher, data) ELSE Base64Encode(data)

(***************************************************************************)
(* UsageTracker: checksums, record_usage, _flush_batch.                    *)
(***************************************************************************)
\* UsageTracker._calculate_checksum
_calculate_checksum(data) ==
    Sha256(JsonDumps(data, TRUE) \o <<"|">> \o machine_id \o <<"|">> \o SECRET_SEED)

\* the dict checksum_data built in record_usage and again in verify_integrity
checksum_data(r) ==
    [record_id   |-> r.record_id,
     timestamp   |-> IsoFormat(r.timestamp),
     action_type |-> <<r.action_type>>,
     sample_name |-> r.sample_name,
     sample_hash |-> r.sample_hash]

\* the tables of the store can be used
HasTables == db_file = "db"

\* the outcomes of a transaction on the store: it can commit only when the
\* tables exist, and it can always fail (locked or unwritable file)
IoOutcomes(buf) == IF buf # <<>> /\ HasTables THEN BOOLEAN ELSE {FALSE}

\* the record record_usage builds
NewRecord(action_type, sample_name) ==
    LET base == [record_id   |-> Uuid(next_id + 1),
                 timestamp   |-> now,
                 action_type |-> action_type,
                 sample_name |-> sample_name,
                 sample_hash |-> Md5(sample_name)]
    IN [record_id         |-> base.record_id,
        timestamp         |-> base.timestamp,
        action_type       |-> base.action_type,
        sample_name       |-> base.sample_name,
        sample_hash       |-> base.sample_hash,
        details_encrypted |-> _encrypt([machine_id |-> machine_id,
                                        license_key |-> license_key]),
        checksum          |-> _calculate_checksum(checksum_data(base))]

\* an entry that carries the name where the hash belongs
PendingEntry_RawName(r) ==
    [record_id   |-> r.record_id,
     timestamp   |-> r.timestamp,
     action_type |-> r.action_type,
     sample_hash |-> r.sample_name,
     checksum    |-> r.checksum]

\* the entry record_usage appends to pending_reports
PendingEntry(r) ==
    [record_id   |-> r.record_id,
     timestamp   |-> r.timestamp,
     action_type |-> r.action_type,
     sample_hash |-> r.sample_hash,
     checksum    |-> r.checksum]

\* an INSERT whose column list leaves out sample_name
InsertedRow_NoSampleName(r) ==
    [record_id |-> r.record_id, timestamp |-> r.timestamp,
     action_type |-> r.action_type, sample_name |-> <<>>,
     sample_hash |-> r.sample_hash, details_encrypted |-> r.details_encrypted,
     checksum |-> r.checksum,
     reported |-> 0, report_time |-> NullInt,
     suspicious_flag |-> 0, suspicious_reason |-> None]

\* the row INSERT INTO usage_records creates: column defaults filled in
InsertedRow(r) ==
    [record_id         |-> r.record_id,
     timestamp         |-> r.timestamp,
     action_type       |-> r.action_type,
     sample_name       |-> r.sample_name,
     sample_hash       |-> r.sample_hash,
     details_encrypted |-> r.details_encrypted,
     checksum          |-> r.checksum,
     reported          |-> 0,
     report_time       |-> NullInt,
     suspicious_flag   |-> 0,
     suspicious_reason |-> None]

RECURSIVE InsertedRows(_)
InsertedRows(buf) ==
    IF buf = <<>> THEN <<>> ELSE <<InsertedRow(Head(buf))>> \o InsertedRows(Tail(buf))

NoStatsRow == [samples_loaded |-> 0, samples_exported |-> 0, samples_split |-> 0,
               total_operations |-> 0]

\* an upsert that replaces the row of the date instead of adding to it
UpsertStats_Replaces(stats, today, buf) ==
    LET row == [samples_loaded   |-> Count(buf, LAMBDA r : r.action_type = "load_sample"),
                samples_exported |-> Count(buf, LAMBDA r : r.action_type = "export_data"),
                samples_split    |-> Count(buf, LAMBDA r : r.action_type = "split_metabolites"),
                total_operations |-> Len(buf)]
    IN [d \in DOMAIN stats \cup {today} |-> IF d = today THEN row ELSE stats[d]]

\* INSERT INTO usage_stats ... ON CONFLICT(date) DO UPDATE of _flush_batch
UpsertStats(stats, today, buf) ==
    LET old == IF today \in DOMAIN stats THEN stats[today] ELSE NoStatsRow
        row == [samples_loaded   |-> old.samples_loaded
                                     + Count(buf, LAMBDA r : r.action_type = "load_sample"),
                samples_exported |-> old.samples_exported
                                     + Count(buf, LAMBDA r : r.action_type = "export_data"),
                samples_split    |-> old.samples_split
                                     + Count(buf, LAMBDA r : r.action_type = "split_metabolites"),
                total_operations |-> old.total_operations + Len(buf)]
    IN [d \in DOMAIN stats \cup {today} |-> IF d = today THEN row ELSE stats[d]]

\* a flush that writes the rows and leaves the buffer as it was
FlushBatch_KeepsBuffer(buf, recs, stats, last, io_ok) ==
    IF buf = <<>> THEN
        [buf |-> buf, recs |-> recs, stats |-> stats, last |-> last]
    ELSE IF io_ok /\ HasTables THEN
        [buf   |-> buf,
         recs  |-> recs \o InsertedRows(buf),
         stats |-> UpsertStats(stats, DateOf(now), buf),
         last  |-> now]
    ELSE
        [buf |-> buf, recs |-> recs, stats |-> stats, last |-> last]

\* UsageTracker._flush_batch on the given buffer and tables; io_ok tells
\* whether the store accepts the transaction.  Yields the buffer, tables
\* and flush time afterwards.
FlushBatch(buf, recs, stats, last, io_ok) ==
    IF buf = <<>> THEN
        [buf |-> buf, recs |-> recs, stats |-> stats, last |-> last]
    ELSE IF io_ok /\ HasTables THEN
        [buf   |-> <<>>,
         recs  |-> recs \o InsertedRows(buf),
         stats |-> UpsertStats(stats, DateOf(now), buf),
         last  |-> now]
    ELSE
        [buf |-> buf, recs |-> recs, stats |-> stats, last |-> last]

(***************************************************************************)
(* UsageTracker: statistics, integrity self-check, export.                 *)
(***************************************************************************)
RECURSIVE DatesDescending(_)
\* ORDER BY date DESC over a set of dates
DatesDescending(S) ==
    IF S = {} THEN <<>>
    ELSE LET m == CHOOSE x \in S : \A y \in S : y <= x
         IN <<m>> \o DatesDescending(S \ {m})

\* SUM(CASE WHEN action_type = a THEN 1 ELSE 0 END): NULL over no rows
SumCase(rows, a) ==
    IF rows = {} THEN NullInt
    ELSE Cardinality({i \in rows : usage_records[i].action_type = a})

\* the period filter with a strict comparison, which leaves out the records
\* of the period's first day
UsageStats_StrictStart(days) ==
    LET start_date == DateOf(now) - days
        rows  == {i \in DOMAIN usage_records :
                     DateOf(usage_records[i].timestamp) > start_date}
        dates == DatesDescending({d \in DOMAIN usage_stats : d >= start_date})
    IN [period_days    |-> days,
        total_records  |-> Cardinality(rows),
        unique_samples |-> Cardinality({usage_records[i].sample_hash : i \in rows}),
        total_loads    |-> SumCase(rows, "load_sample"),
        total_exports  |-> SumCase(rows, "export_data"),
        total_splits   |-> SumCase(rows, "split_metabolites"),
        daily_stats    |-> [k \in DOMAIN dates |->
                               [date |-> dates[k], row |-> usage_stats[dates[k]]]],
        license_key    |-> license_key,
        machine_id     |-> Take(machine_id, 16) \o <<"...">>]

\* UsageTracker.get_usage_stats(days); the store must have its tables
UsageStats(days) ==
    LET start_date == DateOf(now) - days
        rows  == {i \in DOMAIN usage_records :
                     DateOf(usage_records[i].timestamp) >= start_date}
        dates == DatesDescending({d \in DOMAIN usage_stats : d >= start_date})
    IN [period_days    |-> days,
        total_records  |-> Cardinality(rows),
        unique_samples |-> Cardinality({usage_records[i].sample_hash : i \in rows}),
        total_loads    |-> SumCase(rows, "load_sample"),
        total_exports  |-> SumCase(rows, "export_data"),
        total_splits   |-> SumCase(rows, "split_metabolites"),
        daily_stats    |-> [k \in DOMAIN dates |->
                               [date |-> dates[k], row |-> usage_stats[dates[k]]]],
        license_key    |-> license_key,
        machine_id     |-> Take(machine_id, 16) \o <<"...">>]

\* the ids verify_integrity collects in invalid_records, in row order
RECURSIVE InvalidIds(_)
InvalidIds(rows) ==
    IF rows = <<>> THEN <<>>
    ELSE LET r == Head(rows)
         IN (IF _calculate_checksum(checksum_data(r)) = r.checksum
             THEN <<>> ELSE <<r.record_id>>) \o InvalidIds(Tail(rows))

\* UsageTracker.verify_integrity(); the store must have its tables
VerifyIntegrity ==
    LET invalid == InvalidIds(usage_records)
    IN [total_records   |-> Len(usage_records),
        valid_records   |-> Len(usage_records) - Len(invalid),
        invalid_records |-> Len(invalid),
        integrity_ok    |-> Len(invalid) = 0,
        tampered_ids    |-> Take(invalid, 10)]

\* json.dumps of a report; json.loads gives the same value back
JsonText(value) == [json |-> value]

\* the report dict export_usage_report builds
BuildReport(stats, integrity, days) ==
    [license_key      |-> license_key,
     machine_id       |-> machine_id,
     report_date      |-> DateOf(now),
     period_start     |-> DateOf(now) - days,
     period_end       |-> DateOf(now),
     usage_stats      |-> [total_loads    |-> stats.total_loads,
                           total_exports  |-> stats.total_exports,
                           total_splits   |-> stats.total_splits,
                           unique_samples |-> stats.unique_samples,
                           total_records  |-> stats.total_records,
                           period_days    |-> days],
     report_generated |-> now,
     integrity_check  |-> integrity,
     daily_stats      |-> stats.daily_stats]

\* export_usage_report: the report encrypted under the key salted with the
\* license key, base64 without the crypto backend
EncryptReport(report, key_seed, crypto) ==
    IF crypto
    THEN FernetEncrypt(DeriveKey(ExportSalt(key_seed)), JsonText(report))
    ELSE Base64Encode(JsonText(report))

(***************************************************************************)
(* UsageTracker: background reporter.                                      *)
(***************************************************************************)
\* a marking that removes the acknowledged rows from the ledger
MarkAsReported_Purges(recs, record_ids) ==
    SelectSeq(recs, LAMBDA r : r.record_id \notin record_ids)

\* UsageTracker._mark_as_reported: UPDATE ... SET reported = 1, report_time
MarkAsReported(recs, record_ids) ==
    [i \in DOMAIN recs |->
        IF recs[i].record_id \in record_ids
        THEN [recs[i] EXCEPT !.reported = 1, !.report_time = now]
        ELSE recs[i]]

\* UsageTracker._report_pending on the given queue and rows.  status is the
\* endpoint's answer ("200", another status, or "error" for a timeout or
\* connection error); io_ok tells whether the store accepts the update of
\* _mark_as_reported.  outcome: "idle" nothing was sent, "acked" the 200
\* branch ran to its end, "refused" another status, "exception" an
\* exception was swallowed.
ReportPending(pending, recs, status, io_ok) ==
    IF ~HAS_REQUESTS \/ pending = <<>> THEN
        [pending |-> pending, recs |-> recs, sent |-> <<>>, outcome |-> "idle"]
    ELSE
        LET batch == Take(pending, ReportBatch)
            ids   == {batch[i].record_id : i \in DOMAIN batch}
        IN IF status = "error" THEN
               [pending |-> pending, recs |-> recs, sent |-> batch,
                outcome |-> "exception"]
           ELSE IF status # "200" THEN
               [pending |-> pending, recs |-> recs, sent |-> batch,
                outcome |-> "refused"]
           ELSE IF ~(io_ok /\ HasTables) THEN
               [pending |-> pending, recs |-> recs, sent |-> batch,
                outcome |-> "exception"]
           ELSE
               [pending |-> Drop(pending, ReportBatch),
                recs    |-> MarkAsReported(recs, ids),
                sent    |-> batch,
                outcome |-> "acked"]

HttpOutcomes == {"200", "500", "error"}

(***************************************************************************)
(* UsageTracker: the operations.                                           *)
(***************************************************************************)
EmptyStore ==
    /\ usage_records' = <<>>
    /\ usage_stats' = <<>>
    /\ integrity_checks' = <<>>
    /\ flag_columns' = FALSE

\* UsageTracker.__init__ with _init_database_with_repair / _repair_database
Startup ==
    /\ proc = "down"
    /\ proc' = "up"
    /\ CASE db_file \in {"none", "db"} ->
              \* the probe answers 'ok'; CREATE TABLE IF NOT EXISTS
              /\ db_file' = "db"
              /\ history_schema' = IF history_schema = "none" THEN "tracker"
                                   ELSE history_schema
              /\ UNCHANGED <<licenseVars, threadVars, adminVars, edit, backup, usage_records, usage_stats, integrity_checks,
                             flag_columns>>
         [] db_file = "unsound" ->
              \* the probe does not answer 'ok': backup, unlink, reconnect,
              \* create the tables in the new file
              /\ db_file' = "db"
              /\ backup' = TRUE
              /\ history_schema' = "tracker"
              /\ EmptyStore
         [] db_file = "garbage" ->
              \* sqlite3.DatabaseError: backup, unlink, and nothing else
              /\ db_file' = "none"
              /\ backup' = TRUE
              /\ history_schema' = "none"
              /\ EmptyStore
    /\ _batch_buffer' = <<>>
    /\ pending_reports' = <<>>
    /\ _last_flush_time' = now
    /\ started_on' = db_file
    /\ dropped' = (dropped \/ (db_file \in {"unsound", "garbage"} /\ usage_records # <<>>))
    /\ calls' = IF dropped' THEN <<>> ELSE calls
    /\ ret' = [op |-> "startup", raised |-> FALSE]
    /\ UNCHANGED <<licenseVars, threadVars, adminVars, edit, machine_id, license_key, now, ticks, next_id, HAS_REQUESTS,
                   HAS_CRYPTO, out_file>>

\* UsageTracker.record_usage(action_type, sample_name)
record_usage(action_type, sample_name) ==
    /\ proc = "up"
    /\ next_id < MaxCalls
    /\ LET r   == NewRecord(action_type, sample_name)
           buf == Append(_batch_buffer, r)
           due == \/ Len(buf) >= BatchSize
                  \/ now - _last_flush_time > FlushInterval
       IN \E io_ok \in IoOutcomes(IF due THEN buf ELSE <<>>) :
            LET f == IF due
                     THEN FlushBatch(buf, usage_records, usage_stats,
                                     _last_flush_time, io_ok)
                     ELSE [buf |-> buf, recs |-> usage_records,
                           stats |-> usage_stats, last |-> _last_flush_time]
            IN /\ _batch_buffer' = f.buf
               /\ usage_records' = f.recs
               /\ usage_stats' = f.stats
               /\ _last_flush_time' = f.last
               /\ pending_reports' = Append(pending_reports, PendingEntry(r))
               /\ ret' = [op |-> "record_usage", raised |-> FALSE,
                          value |-> r.record_id, flush_due |-> due]
    /\ next_id' = next_id + 1
    /\ calls' = IF dropped THEN <<>>
                ELSE Append(calls, [action_type |-> action_type,
                                    sample_name |-> sample_name, at |-> now])
    /\ UNCHANGED <<licenseVars, threadVars, adminVars, edit, proc, db_file, backup, license_key, now, ticks, HAS_REQUESTS,
                   out_file, auditVars, dropped, started_on>>

\* an explicit UsageTracker._flush_batch() call
_flush_batch ==
    /\ proc = "up"
    /\ \E io_ok \in IoOutcomes(_batch_buffer) :
         LET f == FlushBatch(_batch_buffer, usage_records, usage_stats,
                             _last_flush_time, io_ok)
         IN /\ _batch_buffer' = f.buf
            /\ usage_records' = f.recs
            /\ usage_stats' = f.stats
            /\ _last_flush_time' = f.last
    /\ ret' = [op |-> "_flush_batch", raised |-> FALSE]
    /\ UNCHANGED <<licenseVars, threadVars, adminVars, edit, proc, db_file, backup, pending_reports, license_key, now, ticks,
                   next_id, HAS_REQUESTS, out_file, auditVars, historyVars>>

\* one cycle of reporter_thread: _flush_batch() then _report_pending()
ReporterCycle ==
    /\ proc = "up"
    /\ \E flush_ok \in IoOutcomes(_batch_buffer),
          status \in (IF HAS_REQUESTS /\ pending_reports # <<>>
                      THEN HttpOutcomes ELSE {"error"}),
          mark_ok \in (IF HAS_REQUESTS /\ pending_reports # <<>> /\ HasTables
                       THEN BOOLEAN ELSE {FALSE}) :
         LET f == FlushBatch(_batch_buffer, usage_records, usage_stats,
                             _last_flush_time, flush_ok)
             p == ReportPending(pending_reports, f.recs, status, mark_ok)
         IN /\ _batch_buffer' = f.buf
            /\ usage_stats' = f.stats
            /\ _last_flush_time' = f.last
            /\ usage_records' = p.recs
            /\ pending_reports' = p.pending
            /\ ret' = [op |-> "reporter", raised |-> FALSE, sent |-> p.sent,
                       outcome |-> p.outcome]
    /\ UNCHANGED <<licenseVars, threadVars, adminVars, edit, proc, db_file, backup, license_key, now, ticks, next_id,
                   HAS_REQUESTS, out_file, auditVars, historyVars>>

StatsPeriods == {0, DefaultDays}

\* UsageTracker.get_usage_stats(days)
get_usage_stats(days) ==
    /\ proc = "up"
    /\ ret' = IF HasTables
              THEN [op |-> "get_usage_stats", raised |-> FALSE,
                    value |-> UsageStats(days)]
              ELSE [op |-> "get_usage_stats", raised |-> TRUE]
    /\ UNCHANGED <<licenseVars, threadVars, adminVars, edit, trackerVars, auditVars, historyVars>>

\* UsageTracker.verify_integrity()
verify_integrity ==
    /\ proc = "up"
    /\ ret' = IF HasTables
              THEN [op |-> "verify_integrity", raised |-> FALSE,
                    value |-> VerifyIntegrity]
              ELSE [op |-> "verify_integrity", raised |-> TRUE]
    /\ UNCHANGED <<licenseVars, threadVars, adminVars, edit, trackerVars, auditVars, historyVars>>

\* UsageTracker.export_usage_report(output_file, days)
export_usage_report(days) ==
    /\ proc = "up"
    /\ IF HasTables
       THEN LET report == BuildReport(UsageStats(days), VerifyIntegrity, days)
            IN /\ out_file' = EncryptReport(report, license_key, HAS_CRYPTO)
               /\ file_origin' = [source |-> "export",
                                  seed   |-> IF HAS_CRYPTO THEN license_key ELSE None,
                                  report |-> report]
               /\ ret' = [op |-> "export_usage_report", raised |-> FALSE,
                          value |-> report]
       ELSE /\ UNCHANGED <<out_file, file_origin>>
            /\ ret' = [op |-> "export_usage_report", raised |-> TRUE]
    /\ UNCHANGED <<licenseVars, threadVars, customers, admin_records, edit, proc, db_file, backup, usage_records, usage_stats, _batch_buffer,
                   pending_reports, _last_flush_time, license_key, now, ticks,
                   next_id, HAS_REQUESTS, auditVars, historyVars>>

\* the clock advances by whole days, each longer than the flush interval
ClockSteps == {SecondsPerDay}

\* time passes
Tick(step) ==
    /\ ticks < MaxTicks
    /\ now' = now + step
    /\ ticks' = ticks + 1
    /\ UNCHANGED <<licenseVars, threadVars, adminVars, edit, proc, db_file, backup, usage_records, usage_stats, _batch_buffer,
                   pending_reports, _last_flush_time, license_key, next_id,
                   HAS_REQUESTS, out_file, auditVars, historyVars, ret>>

\* the process ends: UsageTracker.__del__ flushes when it gets to run
Shutdown ==
    /\ proc = "up"
    /\ proc' = "down"
    /\ \E del_runs \in BOOLEAN, io_ok \in IoOutcomes(_batch_buffer) :
         LET f == IF del_runs
                  THEN FlushBatch(_batch_buffer, usage_records, usage_stats,
                                  _last_flush_time, io_ok)
                  ELSE [buf |-> _batch_buffer, recs |-> usage_records,
                        stats |-> usage_stats, last |-> _last_flush_time]
         IN /\ usage_records' = f.recs
            /\ usage_stats' = f.stats
            /\ dropped' = (dropped \/ f.buf # <<>>)
            /\ calls' = IF dropped' THEN <<>> ELSE calls
    /\ _batch_buffer' = <<>>
    /\ pending_reports' = <<>>
    /\ ret' = [op |-> "shutdown", raised |-> FALSE]
    /\ UNCHANGED <<licenseVars, threadVars, adminVars, edit, db_file, backup, _last_flush_time, license_key, now, ticks,
                   next_id, HAS_REQUESTS, out_file, auditVars, started_on>>

NoFile == [scheme |-> "none"]
\* no report file has been written
NoOrigin == [source |-> "none", seed |-> None, report |-> None]
\* no change has been made to the ledger from outside
NoEdit == [kind |-> "none", n |-> 0, ids |-> {}, fingerprint |-> <<>>]

\* LicenseIntegration.__init__, with no license file and no configuration
NoIntegration == [license_key |-> None, expires_at |-> [kind |-> "none", t |-> 0],
                  days_left |-> <<>>, is_valid |-> FALSE, is_expired |-> FALSE,
                  features_restricted |-> FALSE]
NoLicense ==
    /\ license_file = None
    /\ license_config = [kind |-> "none", t |-> 0]
    /\ integration = NoIntegration
\* no thread is inside an operation
Idle == [pc |-> "idle"]
\* the import dialog can have started two ImportWorker threads
Workers == {1, 2}
ThreadsIdle ==
    /\ main_thread = Idle
    /\ reporter_thread = Idle
    /\ workers = [w \in Workers |-> Idle]

Init ==
    /\ proc = "down"
    /\ db_file \in {"none", "unsound", "garbage"}
    /\ backup = FALSE
    /\ usage_records = <<>>
    /\ usage_stats = <<>>
    /\ integrity_checks = <<>>
    /\ history_schema = "none"
    /\ flag_columns = FALSE
    /\ _batch_buffer = <<>>
    /\ pending_reports = <<>>
    /\ _last_flush_time = 0
    /\ machine_id \in MachineIds
    /\ license_key \in LicenseKeys
    /\ now = 0
    /\ ticks = 0
    /\ next_id = 0
    /\ HAS_REQUESTS = TRUE
    /\ HAS_CRYPTO = TRUE
    /\ out_file = NoFile
    /\ calls = <<>>
    /\ dropped = FALSE
    /\ started_on = "none"
    /\ edit = NoEdit
    /\ customers = {}
    /\ admin_records = <<>>
    /\ file_origin = NoOrigin
    /\ NoLicense
    /\ ThreadsIdle
    /\ ret = [op |-> "none", raised |-> FALSE]

Next ==
    \/ Startup
    \/ \E c \in UsageCalls : record_usage(c[1], c[2])
    \/ _flush_batch
    \/ \E days \in StatsPeriods : get_usage_stats(days)
    \/ verify_integrity
    \/ \E step \in ClockSteps : Tick(step)
    \/ Shutdown

\* the ledger through its life: startup and recovery, recording, flushing,
\* statistics and the integrity self-check
Spec == Init /\ [][Next]_vars

InitReporter ==
    /\ proc = "down"
    /\ db_file = "none"
    /\ backup = FALSE
    /\ usage_records = <<>>
    /\ usage_stats = <<>>
    /\ integrity_checks = <<>>
    /\ history_schema = "none"
    /\ flag_columns = FALSE
    /\ _batch_buffer = <<>>
    /\ pending_reports = <<>>
    /\ _last_flush_time = 0
    /\ machine_id \in MachineIds
    /\ license_key \in LicenseKeys
    /\ now = 0
    /\ ticks = 0
    /\ next_id = 0
    /\ HAS_REQUESTS \in BOOLEAN
    /\ HAS_CRYPTO = TRUE
    /\ out_file = NoFile
    /\ calls = <<>>
    /\ dropped = FALSE
    /\ started_on = "none"
    /\ edit = NoEdit
    /\ customers = {}
    /\ admin_records = <<>>
    /\ file_origin = NoOrigin
    /\ NoLicense
    /\ ThreadsIdle
    /\ ret = [op |-> "none", raised |-> FALSE]

NextReporter ==
    \/ Startup
    \/ \E c \in UsageCalls : record_usage(c[1], c[2])
    \/ ReporterCycle
    \/ \E step \in ClockSteps : Tick(step)
    \/ Shutdown

\* the ledger with the background reporter
SpecReporter == InitReporter /\ [][NextReporter]_vars


(***************************************************************************)
(* IntegrityVerifier (integrity_verifier.py) over a ledger that is written *)
(* and edited from outside while no tracker runs: specification SpecAudit. *)
(***************************************************************************)
\* the rows the ledger gets
MaxRows == 2
\* the changes made to stored rows
MaxEdits == 1
\* the passes that save a history row
MaxChecks == 2

AuditMachineIds == {<<"m", "1">>, <<"m", "2">>}
\* the sample name of the rows written, and the names it can be changed to
InsertedName == <<"a">>
AuditNames == {<<"a">>, <<"a", "\"">>}
AuditTimes == {0, 1}
\* a checksum that no record has
ForgedChecksum == <<"0">>
CheckedFields == {"record_id", "timestamp", "action_type", "sample_name", "sample_hash"}

\* IntegrityVerifier.calculate_checksum without the machine identity
calculate_checksum_NoMachine(data) ==
    Sha256(JsonDumps(data, FALSE) \o <<"|">> \o SECRET_SEED)

\* IntegrityVerifier.calculate_checksum
calculate_checksum(data) ==
    Sha256(JsonDumps(data, FALSE) \o <<"|">> \o machine_id \o <<"|">> \o SECRET_SEED)

\* IntegrityVerifier.verify_record: (is_valid, reason)
verify_record(record) ==
    LET expected_checksum == calculate_checksum(checksum_data(record))
        actual_checksum   == record.checksum
    IN IF expected_checksum = actual_checksum
       THEN [valid |-> TRUE, reason |-> <<"Valid">>]
       ELSE [valid |-> FALSE,
             reason |-> <<"Checksum mismatch: expected ">>
                        \o Take(expected_checksum, 8) \o <<"..., got ">>
                        \o Take(actual_checksum, 8) \o <<"...">>]

\* a sequence without its i-th element
Remove(s, i) == SubSeq(s, 1, i - 1) \o SubSeq(s, i + 1, Len(s))

\* SELECT ... FROM usage_records ORDER BY timestamp: rows of one timestamp
\* stay in insertion order
RECURSIVE OrderByTimestamp(_)
OrderByTimestamp(rows) ==
    IF rows = <<>> THEN <<>>
    ELSE LET first == CHOOSE i \in DOMAIN rows :
                          \A j \in DOMAIN rows :
                              \/ rows[i].timestamp < rows[j].timestamp
                              \/ rows[i].timestamp = rows[j].timestamp /\ i <= j
         IN <<rows[first]>> \o OrderByTimestamp(Remove(rows, first))

\* the loop of verify_all_records that counts every record as valid
RECURSIVE SuspiciousRecords_FirstOnly(_)
SuspiciousRecords_FirstOnly(records) ==
    IF records = <<>> THEN <<>>
    ELSE IF verify_record(Head(records)).valid
         THEN SuspiciousRecords_FirstOnly(Tail(records))
         ELSE <<Head(records).record_id>>

\* the loop of verify_all_records: the ids appended to suspicious_records
RECURSIVE SuspiciousRecords(_)
SuspiciousRecords(records) ==
    IF records = <<>> THEN <<>>
    ELSE (IF verify_record(Head(records)).valid
          THEN <<>> ELSE <<Head(records).record_id>>)
         \o SuspiciousRecords(Tail(records))

\* a marking that flags every row the pass visits
MarkSuspicious_EveryRow(rows) ==
    [i \in DOMAIN rows |->
        [rows[i] EXCEPT !.suspicious_flag = 1,
                        !.suspicious_reason = verify_record(rows[i]).reason]]

\* IntegrityVerifier._mark_record_suspicious for every record the loop finds
\* invalid: UPDATE ... SET suspicious_flag = 1, suspicious_reason = ?
MarkSuspicious(rows) ==
    [i \in DOMAIN rows |->
        LET v == verify_record(rows[i])
        IN IF v.valid THEN rows[i]
           ELSE [rows[i] EXCEPT !.suspicious_flag = 1,
                                !.suspicious_reason = v.reason]]

RECURSIVE JoinChecksums(_)
\* "|".join of the stored checksums
JoinChecksums(records) ==
    IF records = <<>> THEN <<>>
    ELSE Head(records).checksum
         \o (IF Tail(records) = <<>> THEN <<>>
             ELSE <<"|">> \o JoinChecksums(Tail(records)))

\* IntegrityVerifier._calculate_overall_checksum
_calculate_overall_checksum(records) ==
    IF records = <<>> THEN Sha256(<<"e", "m", "p", "t", "y">>)
    ELSE Sha256(JoinChecksums(records))

\* the fingerprint a pass over the ledger computes
Fingerprint(rows) == _calculate_overall_checksum(OrderByTimestamp(rows))

\* the record ids that verify
ValidIds(rows) == {rows[i].record_id : i \in {j \in DOMAIN rows : verify_record(rows[j]).valid}}

auditFrame == <<proc, db_file, backup, usage_stats, _batch_buffer, pending_reports,
                _last_flush_time, license_key, now, ticks, HAS_REQUESTS, HAS_CRYPTO,
                out_file, historyVars, adminVars, licenseVars, threadVars>>

\* the store can be audited: it is a ledger and no tracker has it open
Auditable == proc = "down" /\ db_file = "db"

\* a row is written into the ledger with a checksum made by the verifier's
\* own calculate_checksum ("valid") or with one that matches nothing
InsertRecord(ts, kind) ==
    /\ Auditable
    /\ next_id < MaxRows
    /\ LET base == [record_id   |-> Uuid(next_id + 1),
                    timestamp   |-> ts,
                    action_type |-> "load_sample",
                    sample_name |-> InsertedName,
                    sample_hash |-> Md5(InsertedName)]
           row  == [record_id         |-> base.record_id,
                    timestamp         |-> base.timestamp,
                    action_type       |-> base.action_type,
                    sample_name       |-> base.sample_name,
                    sample_hash       |-> base.sample_hash,
                    details_encrypted |-> NoFile,
                    checksum          |-> IF kind = "valid"
                                          THEN calculate_checksum(checksum_data(base))
                                          ELSE ForgedChecksum,
                    reported          |-> 0,
                    report_time       |-> NullInt,
                    suspicious_flag   |-> 0,
                    suspicious_reason |-> None]
       IN usage_records' = Append(usage_records, row)
    /\ next_id' = next_id + 1
    /\ edit' = [kind |-> "insert", n |-> edit.n, ids |-> {},
                fingerprint |-> Fingerprint(usage_records)]
    /\ ret' = [op |-> "edit", raised |-> FALSE]
    /\ UNCHANGED <<auditFrame, integrity_checks, history_schema, flag_columns,
                   machine_id>>

\* the values a checksummed field can be changed to
FieldValues(field) ==
    CASE field = "record_id"   -> {Uuid(0)}
      [] field = "timestamp"   -> AuditTimes
      [] field = "action_type" -> {"load_sample", "export_data"}
      [] field = "sample_name" -> AuditNames
      [] field = "sample_hash" -> {Md5(n) : n \in AuditNames}

\* one checksummed field of one stored row is changed to a different value;
\* the stored checksum is left as it is
TamperField(i, field, value) ==
    /\ Auditable
    /\ edit.n < MaxEdits
    /\ i \in DOMAIN usage_records
    /\ usage_records[i][field] # value
    /\ field = "record_id" =>
           \A j \in DOMAIN usage_records : usage_records[j].record_id # value
    /\ usage_records' = [usage_records EXCEPT ![i][field] = value]
    /\ edit' = [kind |-> "field", n |-> edit.n + 1,
                ids |-> IF verify_record(usage_records[i]).valid
                        THEN {usage_records'[i].record_id} ELSE {},
                fingerprint |-> Fingerprint(usage_records)]
    /\ ret' = [op |-> "edit", raised |-> FALSE]
    /\ UNCHANGED <<auditFrame, integrity_checks, history_schema, flag_columns,
                   machine_id, next_id>>

\* the stored checksum of one row is overwritten with another value
TamperChecksum(i) ==
    /\ Auditable
    /\ edit.n < MaxEdits
    /\ i \in DOMAIN usage_records
    /\ usage_records[i].checksum # ForgedChecksum
    /\ usage_records' = [usage_records EXCEPT ![i].checksum = ForgedChecksum]
    /\ edit' = [kind |-> "checksum", n |-> edit.n + 1, ids |-> {},
                fingerprint |-> Fingerprint(usage_records)]
    /\ ret' = [op |-> "edit", raised |-> FALSE]
    /\ UNCHANGED <<auditFrame, integrity_checks, history_schema, flag_columns,
                   machine_id, next_id>>

\* one row is deleted
DeleteRecord(i) ==
    /\ Auditable
    /\ edit.n < MaxEdits
    /\ i \in DOMAIN usage_records
    /\ usage_records' = Remove(usage_records, i)
    /\ edit' = [kind |-> "delete", n |-> edit.n + 1, ids |-> {},
                fingerprint |-> Fingerprint(usage_records)]
    /\ ret' = [op |-> "edit", raised |-> FALSE]
    /\ UNCHANGED <<auditFrame, integrity_checks, history_schema, flag_columns,
                   machine_id, next_id>>

\* the ledger file is copied to another machine: the verifier is built with
\* that machine's identity
MoveToMachine(m) ==
    /\ Auditable
    /\ m # machine_id
    /\ usage_records # <<>>
    /\ machine_id' = m
    /\ edit' = [kind |-> "machine", n |-> edit.n, ids |-> ValidIds(usage_records),
                fingerprint |-> Fingerprint(usage_records)]
    /\ ret' = [op |-> "edit", raised |-> FALSE]
    /\ UNCHANGED <<auditFrame, usage_records, integrity_checks, history_schema,
                   flag_columns, next_id>>

\* a call of IntegrityVerifier.verify_record on the i-th stored row
VerifyStoredRecord(i) ==
    /\ Auditable
    /\ i \in DOMAIN usage_records
    /\ ret' = [op |-> "verify_record", raised |-> FALSE,
               record_id |-> usage_records[i].record_id,
               value |-> verify_record(usage_records[i]).valid]
    /\ UNCHANGED <<auditFrame, usage_records, integrity_checks, history_schema,
                   flag_columns, machine_id, next_id, edit>>

\* IntegrityVerifier.verify_all_records(mark_suspicious) with
\* _mark_record_suspicious and _save_integrity_check.  The INSERT of the
\* history row names columns that the table created by the tracker does not
\* have: the pass raises there, its UPDATEs are rolled back and the columns
\* added by ALTER TABLE stay.
verify_all_records(mark_suspicious) ==
    /\ Auditable
    /\ Len(integrity_checks) < MaxChecks
    /\ LET records            == OrderByTimestamp(usage_records)
           suspicious_records == SuspiciousRecords(records)
           total_records      == Len(records)
           valid_records      == total_records - Len(suspicious_records)
           overall_checksum   == _calculate_overall_checksum(records)
           marking            == mark_suspicious /\ suspicious_records # <<>>
       IN /\ flag_columns' = (flag_columns \/ marking)
          /\ IF history_schema = "tracker"
             THEN /\ ret' = [op |-> "verify_all_records", raised |-> TRUE]
                  /\ UNCHANGED <<usage_records, integrity_checks, history_schema, edit>>
             ELSE /\ usage_records' = IF mark_suspicious
                                      THEN MarkSuspicious(usage_records)
                                      ELSE usage_records
                  /\ history_schema' = "verifier"
                  /\ integrity_checks' =
                         Append(integrity_checks,
                                [check_time       |-> now,
                                 total_records    |-> total_records,
                                 valid_records    |-> valid_records,
                                 invalid_records  |-> total_records - valid_records,
                                 overall_checksum |-> overall_checksum])
                  /\ ret' = [op |-> "verify_all_records", raised |-> FALSE,
                             since |-> edit,
                             value |->
                                 [total_records      |-> total_records,
                                  valid_records      |-> valid_records,
                                  invalid_records    |-> Len(suspicious_records),
                                  suspicious_records |-> suspicious_records,
                                  integrity_ok       |-> Len(suspicious_records) = 0,
                                  check_time         |-> now,
                                  overall_checksum   |-> overall_checksum]]
                  /\ edit' = [kind |-> "pass", n |-> edit.n, ids |-> {},
                              fingerprint |-> overall_checksum]
    /\ UNCHANGED <<auditFrame, machine_id, next_id>>

InitAudit ==
    /\ proc = "down"
    /\ db_file = "db"
    /\ backup = FALSE
    /\ usage_records = <<>>
    /\ usage_stats = <<>>
    /\ integrity_checks = <<>>
    /\ history_schema \in {"none", "tracker"}
    /\ flag_columns = FALSE
    /\ _batch_buffer = <<>>
    /\ pending_reports = <<>>
    /\ _last_flush_time = 0
    /\ machine_id \in AuditMachineIds
    /\ license_key \in LicenseKeys
    /\ now = 0
    /\ ticks = 0
    /\ next_id = 0
    /\ HAS_REQUESTS = TRUE
    /\ HAS_CRYPTO = TRUE
    /\ out_file = NoFile
    /\ calls = <<>>
    /\ dropped = FALSE
    /\ started_on = "none"
    /\ edit = NoEdit
    /\ customers = {}
    /\ admin_records = <<>>
    /\ file_origin = NoOrigin
    /\ NoLicense
    /\ ThreadsIdle
    /\ ret = [op |-> "none", raised |-> FALSE]

NextAudit ==
    \/ \E ts \in AuditTimes, kind \in {"valid", "forged"} : InsertRecord(ts, kind)
    \/ \E i \in 1..MaxRows, field \in CheckedFields :
           \E value \in FieldValues(field) : TamperField(i, field, value)
    \/ \E i \in 1..MaxRows : TamperChecksum(i)
    \/ \E i \in 1..MaxRows : DeleteRecord(i)
    \/ \E m \in AuditMachineIds : MoveToMachine(m)
    \/ \E i \in 1..MaxRows : VerifyStoredRecord(i)
    \/ \E mark_suspicious \in BOOLEAN : verify_all_records(mark_suspicious)

SpecAudit == InitAudit /\ [][NextAudit]_vars

(***************************************************************************)
(* The administrator's import of report files (import_report_dialog.py,    *)
(* data_encryptor.py, database_manager.py): specification SpecImport.      *)
(***************************************************************************)
\* the rows the administrator's usage_records table gets
MaxReports == 2

\* license keys: two that share their first 16 characters, and a short one
KeyPrefix == Repeat(<<"K">>, SaltLen)
LongKeyA == KeyPrefix \o <<"1">>
LongKeyB == KeyPrefix \o <<"2">>
ShortKey == <<"k">>
ImportKeys == {LongKeyA, LongKeyB, ShortKey}
\* the license keys the administrator gives to customers
CustomerKeys == {LongKeyA, ShortKey}
\* the seeds a report file can be encrypted under; None: no crypto backend
FileSeeds == ImportKeys \cup MachineIds \cup {None}
\* the usage_stats of a report written by another client
OtherStats == [total_loads |-> 1, total_exports |-> 0, total_splits |-> 0,
               unique_samples |-> 1, total_records |-> 1, period_days |-> DefaultDays]

\* json.loads of a text written by json.dumps
JsonLoads(text) == text.json

\* decryption returns None, or <<text>> for the decrypted text
Undecryptable == <<>>

\* DataEncryptor.encrypt of a DataEncryptor built with one seed: the first
\* cipher, base64 when there is none
DataEncryptor_encrypt(seed, data) ==
    IF seed # None THEN FernetEncrypt(DeriveKey(PaddedSalt(seed)), data)
    ELSE Base64Encode(data)

\* DataEncryptor.decrypt of a DataEncryptor built with one seed: the cipher
\* of the seed, then base64; a Fernet token is no base64 text of UTF-8
DataEncryptor_decrypt(seed, blob) ==
    IF blob.scheme = "fernet"
    THEN IF blob.key = DeriveKey(PaddedSalt(seed)) THEN <<blob.plain>>
         ELSE Undecryptable
    ELSE IF blob.scheme = "base64" THEN <<blob.plain>>
    ELSE Undecryptable

\* the machine ids of SELECT DISTINCT machine_id ... WHERE machine_id IS NOT NULL
KnownMachineIds(rows) ==
    {rows[i].machine_id : i \in {j \in DOMAIN rows : rows[j].machine_id # None}}

\* ImportWorker._try_decrypt: every customer's license key, then every known
\* machine id, then plain base64; all successes give the same text
_try_decrypt(blob, keys, machine_ids) ==
    LET opened == {DataEncryptor_decrypt(seed, blob) : seed \in keys \cup machine_ids}
                      \ {Undecryptable}
    IN IF opened # {} THEN CHOOSE d \in opened : TRUE
       ELSE IF blob.scheme = "base64" THEN <<blob.plain>>
       ELSE Undecryptable

\* ImportWorker._validate_report: the required fields are there (the
\* usage_stats of every report written here is a dict)
_validate_report(report_data) ==
    {"license_key", "machine_id", "report_date", "usage_stats"}
        \subseteq DOMAIN report_data

\* the SQL comparison column = ?: never true of NULL
SqlEquals(column, value) == column # None /\ value # None /\ column = value

\* ImportWorker._check_duplicate
_check_duplicate(report_data, rows) ==
    \E i \in DOMAIN rows :
        /\ SqlEquals(rows[i].license_key, report_data.license_key)
        /\ rows[i].report_date = report_data.report_date
        /\ SqlEquals(rows[i].machine_id, report_data.machine_id)

\* the customer_id of the customer that holds a license key
CustomerIdOf(key) == <<"c">> \o key

\* the usage_record dict of ImportWorker._save_to_database
UsageRecordOf(report_data) ==
    [customer_id          |-> CustomerIdOf(report_data.license_key),
     license_key          |-> report_data.license_key,
     machine_id           |-> report_data.machine_id,
     report_date          |-> report_data.report_date,
     period_start         |-> report_data.period_start,
     period_end           |-> report_data.period_end,
     total_samples_loaded |-> report_data.usage_stats.total_loads,
     total_exports        |-> report_data.usage_stats.total_exports,
     total_splits         |-> report_data.usage_stats.total_splits,
     unique_samples       |-> report_data.usage_stats.unique_samples,
     imported_at          |-> now]

\* ImportWorker._save_to_database: the result dict
SaveResult(report_data, is_duplicate, keys) ==
    IF report_data.license_key \notin keys
    THEN [success |-> FALSE, error |-> "no customer", is_duplicate |-> is_duplicate]
    ELSE IF is_duplicate
    THEN [success      |-> FALSE,
          error        |-> "duplicate",
          is_duplicate |-> TRUE,
          customer_id  |-> CustomerIdOf(report_data.license_key),
          license_key  |-> report_data.license_key,
          machine_id   |-> report_data.machine_id,
          report_date  |-> report_data.report_date,
          usage_stats  |-> report_data.usage_stats]
    ELSE [success      |-> TRUE,
          customer_id  |-> CustomerIdOf(report_data.license_key),
          machine_id   |-> report_data.machine_id,
          usage_stats  |-> report_data.usage_stats,
          is_duplicate |-> FALSE]

RECURSIVE SumColumn(_, _, _)
\* SUM(column) over the rows of one customer .. or 0: NULLs are skipped
SumColumn(rows, customer_id, column) ==
    IF rows = <<>> THEN 0
    ELSE (IF Head(rows).customer_id = customer_id /\ Head(rows)[column] # NullInt
          THEN Head(rows)[column] ELSE 0)
         + SumColumn(Tail(rows), customer_id, column)

\* DatabaseManager.get_customer_usage
get_customer_usage(rows, customer_id) ==
    [customer_id    |-> customer_id,
     total_loads    |-> SumColumn(rows, customer_id, "total_samples_loaded"),
     total_exports  |-> SumColumn(rows, customer_id, "total_exports"),
     total_splits   |-> SumColumn(rows, customer_id, "total_splits"),
     unique_samples |-> SumColumn(rows, customer_id, "unique_samples"),
     report_count   |-> Cardinality({i \in DOMAIN rows :
                                        rows[i].customer_id = customer_id})]

importFrame == <<proc, db_file, backup, usage_records, usage_stats, _batch_buffer,
                 pending_reports, _last_flush_time, license_key, now, ticks,
                 next_id, HAS_REQUESTS, auditVars, historyVars, edit, licenseVars,
                 threadVars>>

\* the administrator registers a customer with a license key
AddCustomer(key) ==
    /\ key \notin customers
    /\ customers' = customers \cup {key}
    /\ ret' = [op |-> "add_customer", raised |-> FALSE]
    /\ UNCHANGED <<importFrame, admin_records, out_file, file_origin>>

\* another client writes a report file with DataEncryptor(seed).encrypt; its
\* report names the client's license key and a machine id, which may be null
WriteReport(seed, mid) ==
    /\ LET key    == IF seed \in ImportKeys THEN seed ELSE LongKeyA
           report == [license_key  |-> key,
                      machine_id   |-> mid,
                      report_date  |-> DateOf(now),
                      period_start |-> DateOf(now) - DefaultDays,
                      period_end   |-> DateOf(now),
                      usage_stats  |-> OtherStats]
       IN /\ out_file' = DataEncryptor_encrypt(seed, JsonText(report))
          /\ file_origin' = [source |-> "written", seed |-> seed, report |-> report]
    /\ ret' = [op |-> "write_report", raised |-> FALSE]
    /\ UNCHANGED <<importFrame, customers, admin_records>>

\* ImportWorker.run on the file out_file
ImportReport ==
    /\ out_file # NoFile
    /\ Len(admin_records) < MaxReports
    /\ LET machine_ids == KnownMachineIds(admin_records)
           decrypted   == _try_decrypt(out_file, customers, machine_ids)
           tried       == [keys |-> customers, machine_ids |-> machine_ids]
       IN IF decrypted = Undecryptable
          THEN /\ ret' = [op |-> "import", raised |-> FALSE, outcome |-> "error",
                          decrypted |-> FALSE, tried |-> tried]
               /\ UNCHANGED admin_records
          ELSE LET report_data == JsonLoads(decrypted[1])
               IN IF ~_validate_report(report_data)
                  THEN /\ ret' = [op |-> "import", raised |-> FALSE,
                                  outcome |-> "error", decrypted |-> TRUE,
                                  tried |-> tried]
                       /\ UNCHANGED admin_records
                  ELSE LET is_duplicate == _check_duplicate(report_data, admin_records)
                           result == SaveResult(report_data, is_duplicate, customers)
                       IN /\ admin_records' =
                                 IF result.success
                                 THEN Append(admin_records, UsageRecordOf(report_data))
                                 ELSE admin_records
                          /\ ret' = [op |-> "import", raised |-> FALSE,
                                     outcome |-> "finished", decrypted |-> TRUE,
                                     tried |-> tried, report |-> report_data,
                                     result |-> result]
    /\ UNCHANGED <<importFrame, customers, out_file, file_origin>>

\* the calls the client makes before it exports
ImportCalls == {<<"load_sample", <<"a">> >>}

InitImport ==
    /\ proc = "up"
    /\ db_file = "db"
    /\ backup = FALSE
    /\ usage_records = <<>>
    /\ usage_stats = <<>>
    /\ integrity_checks = <<>>
    /\ history_schema = "tracker"
    /\ flag_columns = FALSE
    /\ _batch_buffer = <<>>
    /\ pending_reports = <<>>
    /\ _last_flush_time = 0
    /\ machine_id \in MachineIds
    /\ license_key \in {LongKeyA, ShortKey}
    /\ now = 0
    /\ ticks = 0
    /\ next_id = 0
    /\ HAS_REQUESTS = TRUE
    /\ HAS_CRYPTO = TRUE
    /\ out_file = NoFile
    /\ calls = <<>>
    /\ dropped = FALSE
    /\ started_on = "none"
    /\ edit = NoEdit
    /\ customers = {}
    /\ admin_records = <<>>
    /\ file_origin = NoOrigin
    /\ NoLicense
    /\ ThreadsIdle
    /\ ret = [op |-> "none", raised |-> FALSE]

NextImport ==
    \/ \E c \in ImportCalls : record_usage(c[1], c[2])
    \/ export_usage_report(DefaultDays)
    \/ \E key \in CustomerKeys : AddCustomer(key)
    \/ \E seed \in FileSeeds, mid \in MachineIds \cup {None} : WriteReport(seed, mid)
    \/ ImportReport

SpecImport == InitImport /\ [][NextImport]_vars

(***************************************************************************)
(* DataEncryptor with integrity and MultiKeyDecryptor (data_encryptor.py): *)
(* specification SpecCodec.  A data dictionary is the sequence of its      *)
(* <<key, value>> items in insertion order.                                *)
(***************************************************************************)
\* the seed of the scenario, "machine-001"
Machine001 == <<"m", "a", "c", "h", "i", "n", "e", "-", "0", "0", "1">>
\* machine ids: the empty string, a short one, two that share 16 characters
CodecMachineIds == {<<>>, Machine001, LongKeyA, LongKeyB}
\* the keys of the data dictionaries, in sorted order
DataKeys == <<"n", "test">>
DataDicts == { <<>>,
               << <<"test", <<"d", "a", "t", "a", "1">> >> >>,
               << <<"test", <<"é", "\"">> >>, <<"n", <<>> >> >>,
               << <<"n", <<"1">> >> >> }
\* the lists of machine ids a MultiKeyDecryptor is built with
KnownIdLists == { <<>>, <<Machine001>>, <<LongKeyB, LongKeyA>>,
                  <<LongKeyA, Machine001, <<>> >>, <<LongKeyB, Machine001>> }

\* the items of a dictionary with the given key
ItemsOf(d, k) == SelectSeq(d, LAMBDA item : item[1] = k)

RECURSIVE SortItems(_, _)
\* sort_keys=True: the items in the order of their keys
SortItems(d, keys) ==
    IF keys = <<>> THEN <<>>
    ELSE ItemsOf(d, Head(keys)) \o SortItems(d, Tail(keys))

RECURSIVE DumpItems(_, _)
DumpItems(items, ensure_ascii) ==
    IF items = <<>> THEN <<>>
    ELSE <<"\"", Head(items)[1], "\"", ":", " ">>
         \o JsonValue(Head(items)[2], ensure_ascii)
         \o (IF Tail(items) = <<>> THEN <<>>
             ELSE <<",", " ">> \o DumpItems(Tail(items), ensure_ascii))

\* json.dumps(d, sort_keys=True) of a data dictionary
DumpDict(d) == <<"{">> \o DumpItems(SortItems(d, DataKeys), TRUE) \o <<"}">>

\* DataEncryptor.__init__: the keys of self.ciphers, built from the truthy
\* ones of machine_id and license_key when the crypto backend is there
Ciphers(mid, lic) ==
    IF ~HAS_CRYPTO THEN <<>>
    ELSE (IF mid # None /\ mid # <<>> THEN <<DeriveKey(PaddedSalt(mid))>> ELSE <<>>)
         \o (IF lic # None /\ lic # <<>> THEN <<DeriveKey(PaddedSalt(lic))>> ELSE <<>>)

\* DataEncryptor.encrypt: the first cipher, else base64
encrypt(ciphers, data) ==
    IF ciphers # <<>> THEN FernetEncrypt(ciphers[1], data) ELSE Base64Encode(data)

\* DataEncryptor.decrypt: every configured cipher, then base64
decrypt(ciphers, blob) ==
    IF blob.scheme = "fernet"
    THEN IF \E i \in DOMAIN ciphers : ciphers[i] = blob.key
         THEN <<blob.plain>> ELSE Undecryptable
    ELSE IF blob.scheme = "base64" THEN <<blob.plain>>
    ELSE Undecryptable

\* DataEncryptor.calculate_checksum: machine_id or ''
DataEncryptor_calculate_checksum(mid, data) ==
    Sha256(DumpDict(data) \o <<"|">> \o (IF mid = None THEN <<>> ELSE mid)
           \o <<"|">> \o SECRET_SEED)

\* DataEncryptor.encrypt_with_integrity of DataEncryptor(machine_id=mid)
encrypt_with_integrity(mid, data) ==
    encrypt(Ciphers(mid, None),
            JsonText([data |-> data,
                      checksum |-> DataEncryptor_calculate_checksum(mid, data)]))

\* DataEncryptor.decrypt_and_verify of DataEncryptor(mid, lic): <<data>> or
\* <<>> for None
decrypt_and_verify(mid, lic, blob) ==
    LET decrypted == decrypt(Ciphers(mid, lic), blob)
    IN IF decrypted = Undecryptable THEN <<>>
       ELSE LET data_with_checksum == JsonLoads(decrypted[1])
                data == data_with_checksum.data
                expected_checksum == data_with_checksum.checksum
            IN IF data = <<>> \/ expected_checksum = <<>> THEN <<>>
               ELSE IF DataEncryptor_calculate_checksum(mid, data) = expected_checksum
               THEN <<data>>
               ELSE <<>>

RECURSIVE FirstResult(_, _)
\* the first non-empty result of decrypt_and_verify over a list of machine ids
FirstResult(known_machine_ids, blob) ==
    IF known_machine_ids = <<>> THEN <<>>
    ELSE LET result == decrypt_and_verify(Head(known_machine_ids), None, blob)
         IN IF result # <<>> /\ result[1] # <<>> THEN result
            ELSE FirstResult(Tail(known_machine_ids), blob)

\* MultiKeyDecryptor.decrypt of MultiKeyDecryptor(known_machine_ids): the
\* machine ids in order, then plain base64 of a {'data': ...} text
MultiKeyDecryptor_decrypt(known_machine_ids, blob) ==
    LET result == FirstResult(known_machine_ids, blob)
    IN IF result # <<>> THEN result
       ELSE IF blob.scheme = "base64" THEN <<JsonLoads(blob.plain).data>>
       ELSE <<>>

codecFrame == <<proc, db_file, backup, usage_records, usage_stats, _batch_buffer,
                pending_reports, _last_flush_time, license_key, now, ticks,
                next_id, HAS_REQUESTS, auditVars, historyVars, edit, customers,
                admin_records, licenseVars, threadVars>>

\* DataEncryptor(machine_id).encrypt_with_integrity(d), the result written out
EncryptWithIntegrity(d) ==
    /\ out_file' = encrypt_with_integrity(machine_id, d)
    /\ file_origin' = [source |-> "integrity", seed |-> machine_id, report |-> d]
    /\ ret' = [op |-> "encrypt_with_integrity", raised |-> FALSE]
    /\ UNCHANGED codecFrame

\* DataEncryptor(machine_id).decrypt_and_verify on the blob written out
DecryptAndVerify ==
    /\ file_origin.source = "integrity"
    /\ ret' = [op |-> "decrypt_and_verify", raised |-> FALSE,
               value |-> decrypt_and_verify(machine_id, None, out_file)]
    /\ UNCHANGED <<codecFrame, out_file, file_origin>>

\* MultiKeyDecryptor(known_machine_ids).decrypt on the blob written out
MultiKeyDecrypt(known_machine_ids) ==
    /\ file_origin.source = "integrity"
    /\ ret' = [op |-> "multi_key_decrypt", raised |-> FALSE,
               known |-> known_machine_ids,
               value |-> MultiKeyDecryptor_decrypt(known_machine_ids, out_file)]
    /\ UNCHANGED <<codecFrame, out_file, file_origin>>

InitCodec ==
    /\ proc = "down"
    /\ db_file = "none"
    /\ backup = FALSE
    /\ usage_records = <<>>
    /\ usage_stats = <<>>
    /\ integrity_checks = <<>>
    /\ history_schema = "none"
    /\ flag_columns = FALSE
    /\ _batch_buffer = <<>>
    /\ pending_reports = <<>>
    /\ _last_flush_time = 0
    /\ machine_id \in CodecMachineIds
    /\ license_key \in LicenseKeys
    /\ now = 0
    /\ ticks = 0
    /\ next_id = 0
    /\ HAS_REQUESTS = TRUE
    /\ HAS_CRYPTO \in BOOLEAN
    /\ out_file = NoFile
    /\ calls = <<>>
    /\ dropped = FALSE
    /\ started_on = "none"
    /\ edit = NoEdit
    /\ customers = {}
    /\ admin_records = <<>>
    /\ file_origin = NoOrigin
    /\ NoLicense
    /\ ThreadsIdle
    /\ ret = [op |-> "none", raised |-> FALSE]

NextCodec ==
    \/ \E d \in DataDicts : EncryptWithIntegrity(d)
    \/ DecryptAndVerify
    \/ \E known \in KnownIdLists : MultiKeyDecrypt(known)

SpecCodec == InitCodec /\ [][NextCodec]_vars

(***************************************************************************)
(* License keys, expiry and feature restriction (license_manager_core.py, *)
(* license_integration.py): specification SpecLicense.  MD5 cut to four    *)
(* hexadecimal digits is modelled by a fixed 16-bit function of the text.  *)
(***************************************************************************)
\* the characters of the license texts; the first sixteen are the
\* hexadecimal digits in order
CharList == <<"0", "1", "2", "3", "4", "5", "6", "7", "8", "9",
              "A", "B", "C", "D", "E", "F",
              "S", "I", "N", "V", "L", "X", "Z", "-", " ", "\n">>
HexChars == {CharList[i] : i \in 1..16}
CharCode(c) == CHOOSE i \in DOMAIN CharList : CharList[i] = c

RECURSIVE Hash16(_, _)
\* the digest of a text, as a number below 65536
Hash16(h, s) ==
    IF s = <<>> THEN h
    ELSE Hash16((h * 31 + CharCode(Head(s))) % 65536, Tail(s))

\* LicenseGenerator._calculate_checksum: hexdigest()[:4].upper()
LicenseGenerator_calculate_checksum(data) ==
    LET n == Hash16(7, data)
    IN <<CharList[(n \div 4096) + 1], CharList[((n \div 256) % 16) + 1],
         CharList[((n \div 16) % 16) + 1], CharList[(n % 16) + 1]>>

\* uuid.uuid4().hex[:8].upper(): some groups of eight hexadecimal digits
HexGroups == { Repeat(<<"0">>, 8),
               <<"1", "2", "3", "4", "5", "6", "7", "8">>,
               <<"A", "B", "C", "D", "E", "F", "0", "9">> }
DESI == <<"D", "E", "S", "I">>

\* a key whose checksum covers the first group only
generate_license_key_FirstGroup(part1, part2) ==
    DESI \o <<"-">> \o part1 \o <<"-">> \o part2 \o <<"-">>
         \o LicenseGenerator_calculate_checksum(part1)

\* LicenseGenerator.generate_license_key, for the two groups drawn
generate_license_key(part1, part2) ==
    DESI \o <<"-">> \o part1 \o <<"-">> \o part2 \o <<"-">>
         \o LicenseGenerator_calculate_checksum(part1 \o part2)

RECURSIVE Split(_, _)
\* str.split(sep)
Split(s, sep) ==
    IF \A i \in DOMAIN s : s[i] # sep THEN <<s>>
    ELSE LET k == CHOOSE i \in DOMAIN s :
                      s[i] = sep /\ \A j \in 1..(i - 1) : s[j] # sep
         IN <<SubSeq(s, 1, k - 1)>> \o Split(SubSeq(s, k + 1, Len(s)), sep)

RECURSIVE Strip(_)
\* str.strip()
Strip(s) ==
    IF s = <<>> THEN s
    ELSE IF Head(s) \in {" ", "\n"} THEN Strip(Tail(s))
    ELSE IF s[Len(s)] \in {" ", "\n"} THEN Strip(SubSeq(s, 1, Len(s) - 1))
    ELSE s

\* LicenseGenerator.validate_license_format
validate_license_format(key_text) ==
    IF key_text = <<>> THEN FALSE
    ELSE LET parts == Split(key_text, "-")
         IN IF Len(parts) # 4 THEN FALSE
            ELSE IF parts[1] # DESI THEN FALSE
            ELSE IF Len(parts[2]) # 8 \/ Len(parts[3]) # 8 THEN FALSE
            ELSE IF Len(parts[4]) # 4 THEN FALSE
            ELSE parts[4] = LicenseGenerator_calculate_checksum(parts[2] \o parts[3])

\* the urgent level up to ten days
should_show_reminder_UrgentTen(days_left) ==
    IF days_left < 0 THEN [show |-> TRUE, level |-> "expired"]
    ELSE IF days_left <= 10 THEN [show |-> TRUE, level |-> "urgent"]
    ELSE IF days_left <= 30 THEN [show |-> TRUE, level |-> "warning"]
    ELSE IF days_left <= 60 THEN [show |-> TRUE, level |-> "info"]
    ELSE [show |-> FALSE, level |-> "none"]

\* LicenseValidator.should_show_reminder
should_show_reminder(days_left) ==
    IF days_left < 0 THEN [show |-> TRUE, level |-> "expired"]
    ELSE IF days_left <= 7 THEN [show |-> TRUE, level |-> "urgent"]
    ELSE IF days_left <= 30 THEN [show |-> TRUE, level |-> "warning"]
    ELSE IF days_left <= 60 THEN [show |-> TRUE, level |-> "info"]
    ELSE [show |-> FALSE, level |-> "none"]

\* LicenseValidator.should_restrict_features
should_restrict_features(days_left) == days_left < 0

\* LicenseValidator.check_expiry: (expires_dt - now).days, -999 for a text
\* that is no date
check_expiry(expires_at) ==
    IF expires_at.kind = "bad" THEN 0 - 999
    ELSE (expires_at.t - now) \div SecondsPerDay

\* LicenseIntegration._get_expiry_date: the expires_at line of the
\* configuration, one year from now without a configuration
_get_expiry_date ==
    IF license_config.kind = "none"
    THEN [kind |-> "time", t |-> now + 365 * SecondsPerDay]
    ELSE license_config

\* LicenseIntegration.check_license_on_startup on the object obj and the
\* license file: the object afterwards and the first of the returned values
CheckLicense(obj, file) ==
    IF file = None THEN [obj |-> obj, is_valid |-> FALSE]
    ELSE LET read == [obj EXCEPT !.license_key = Strip(file)]
         IN IF ~validate_license_format(read.license_key)
            THEN [obj |-> read, is_valid |-> FALSE]
            ELSE LET dated == [read EXCEPT !.expires_at = _get_expiry_date]
                 IN IF dated.expires_at.kind = "empty"
                    THEN [obj |-> [dated EXCEPT !.is_valid = TRUE], is_valid |-> TRUE]
                    ELSE LET days_left == check_expiry(dated.expires_at)
                             checked == [dated EXCEPT !.days_left = <<days_left>>]
                         IN IF days_left < 0
                            THEN [obj |-> [checked EXCEPT !.is_expired = TRUE,
                                                          !.features_restricted = TRUE],
                                  is_valid |-> FALSE]
                            ELSE [obj |-> [checked EXCEPT !.is_valid = TRUE],
                                  is_valid |-> TRUE]

\* an update that leaves the restriction as the check left it
UpdateLicense_KeepsRestriction(obj, file, new_license_key) ==
    IF ~validate_license_format(new_license_key)
    THEN [obj |-> obj, file |-> file, success |-> FALSE]
    ELSE LET c == CheckLicense([obj EXCEPT !.license_key = new_license_key],
                               new_license_key)
         IN [obj |-> c.obj, file |-> new_license_key, success |-> c.is_valid]

\* LicenseIntegration.update_license: the object, the license file and the
\* first of the returned values
UpdateLicense(obj, file, new_license_key) ==
    IF ~validate_license_format(new_license_key)
    THEN [obj |-> obj, file |-> file, success |-> FALSE]
    ELSE LET c == CheckLicense([obj EXCEPT !.license_key = new_license_key],
                               new_license_key)
         IN IF c.is_valid
            THEN [obj |-> [c.obj EXCEPT !.features_restricted = FALSE],
                  file |-> new_license_key, success |-> TRUE]
            ELSE [obj |-> c.obj, file |-> new_license_key, success |-> FALSE]

\* LicenseIntegration.get_restricted_features
get_restricted_features(obj) ==
    IF ~obj.features_restricted THEN {}
    ELSE {"load_sample", "export_data", "split_metabolites", "generate_report",
          "roi_analysis", "metabolite_search"}
\* the features the application asks about
Features == {"load_sample", "export_data", "split_metabolites", "generate_report",
             "roi_analysis", "metabolite_search", "view_data"}

\* LicenseIntegration.is_feature_allowed
is_feature_allowed(obj, feature_name) ==
    IF ~obj.features_restricted THEN TRUE
    ELSE feature_name \notin get_restricted_features(obj)

\* texts given to validate_license_format and update_license: generated
\* keys, and texts that break the shape in one way each
NonHexGroup == Repeat(<<"Z">>, 8)
CandidateKeys ==
    LET g1 == <<"1", "2", "3", "4", "5", "6", "7", "8">>
        g2 == Repeat(<<"0">>, 8)
        ok == generate_license_key(g1, g2)
    IN { ok,
         generate_license_key(g2, g2),
         <<>>,
         <<" ", " ", " ">>,
         <<"I", "N", "V", "A", "L", "I", "D", "-", "L", "I", "C", "E", "N", "S", "E">>,
         DESI \o <<"-">> \o g1,
         DESI \o <<"-">> \o g1 \o <<"-">> \o g2,
         DESI \o <<"-">> \o g1 \o <<"-">> \o g2 \o <<"-", "X", "X", "X", "X">>,
         DESI \o <<"-">> \o g1 \o <<"-">> \o g2 \o <<"-">>
              \o LicenseGenerator_calculate_checksum(g2 \o g1),
         <<"D", "E", "S", "X">> \o SubSeq(ok, 5, Len(ok)),
         DESI \o <<"-">> \o SubSeq(g1, 1, 7) \o <<"-">> \o g2 \o <<"-">>
              \o LicenseGenerator_calculate_checksum(SubSeq(g1, 1, 7) \o g2),
         ok \o <<"-">> \o g1,
         ok \o <<"\n">>,
         generate_license_key(NonHexGroup, NonHexGroup) }

\* the texts given to update_license: two generated keys, one with a wrong
\* checksum, one with groups that are not hexadecimal
UpdateKeys ==
    { generate_license_key(<<"1", "2", "3", "4", "5", "6", "7", "8">>, Repeat(<<"0">>, 8)),
      generate_license_key(Repeat(<<"0">>, 8), Repeat(<<"0">>, 8)),
      DESI \o <<"-">> \o Repeat(<<"0">>, 8) \o <<"-">> \o Repeat(<<"0">>, 8)
           \o <<"-", "X", "X", "X", "X">>,
      generate_license_key(NonHexGroup, NonHexGroup) }

\* the expires_at line of license_config.txt: a date half a day or ten days
\* after the start, an empty value, a text that is no date
ExpiryLines == { [kind |-> "time", t |-> SecondsPerDay \div 2],
                 [kind |-> "time", t |-> 10 * SecondsPerDay],
                 [kind |-> "empty", t |-> 0],
                 [kind |-> "bad", t |-> 0] }
\* the days_left values the reminder is asked about
ReminderDays == {0 - 1, 0, 7, 8, 10, 30, 31, 60, 61}

licenseFrame == <<proc, db_file, backup, usage_records, usage_stats, _batch_buffer,
                  pending_reports, _last_flush_time, license_key, ticks, next_id,
                  HAS_REQUESTS, out_file, auditVars, historyVars, edit, adminVars,
                  threadVars>>

\* a call of LicenseGenerator.generate_license_key
GenerateLicenseKey(part1, part2) ==
    /\ ret' = [op |-> "generate_license_key", raised |-> FALSE,
               part1 |-> part1, part2 |-> part2,
               value |-> generate_license_key(part1, part2)]
    /\ UNCHANGED <<licenseFrame, licenseVars, now>>

\* a call of LicenseGenerator.validate_license_format
ValidateLicenseFormat(text) ==
    /\ ret' = [op |-> "validate_license_format", raised |-> FALSE,
               arg |-> text, value |-> validate_license_format(text)]
    /\ UNCHANGED <<licenseFrame, licenseVars, now>>

\* calls of LicenseValidator.should_show_reminder and should_restrict_features
Reminder(days_left) ==
    /\ ret' = [op |-> "reminder", raised |-> FALSE, days_left |-> days_left,
               level |-> should_show_reminder(days_left).level,
               restrict |-> should_restrict_features(days_left)]
    /\ UNCHANGED <<licenseFrame, licenseVars, now>>

\* the administrator's license_config.txt is put in place
InstallConfig(line) ==
    /\ license_config # line
    /\ license_config' = line
    /\ ret' = [op |-> "install_config", raised |-> FALSE]
    /\ UNCHANGED <<licenseFrame, license_file, integration, now>>

\* LicenseIntegration.check_license_on_startup
check_license_on_startup ==
    /\ LET c == CheckLicense(integration, license_file)
       IN /\ integration' = c.obj
          /\ ret' = [op |-> "check_license_on_startup", raised |-> FALSE,
                     value |-> c.is_valid]
    /\ UNCHANGED <<licenseFrame, license_file, license_config, now>>

\* LicenseIntegration.update_license(new_license_key)
update_license(new_license_key) ==
    /\ LET u == UpdateLicense(integration, license_file, new_license_key)
       IN /\ integration' = u.obj
          /\ license_file' = u.file
          /\ ret' = [op |-> "update_license", raised |-> FALSE,
                     arg |-> new_license_key, value |-> u.success,
                     expiry |-> _get_expiry_date,
                     was_restricted |-> integration.features_restricted]
    /\ UNCHANGED <<licenseFrame, license_config, now>>

\* a day passes
LicenseTick ==
    /\ ticks < MaxTicks
    /\ now' = now + SecondsPerDay
    /\ ticks' = ticks + 1
    /\ UNCHANGED <<proc, db_file, backup, usage_records, usage_stats, _batch_buffer,
                   pending_reports, _last_flush_time, license_key, next_id,
                   HAS_REQUESTS, out_file, auditVars, historyVars, edit, adminVars,
                   threadVars, licenseVars, ret>>

InitLicense ==
    /\ proc = "down"
    /\ db_file = "none"
    /\ backup = FALSE
    /\ usage_records = <<>>
    /\ usage_stats = <<>>
    /\ integrity_checks = <<>>
    /\ history_schema = "none"
    /\ flag_columns = FALSE
    /\ _batch_buffer = <<>>
    /\ pending_reports = <<>>
    /\ _last_flush_time = 0
    /\ machine_id \in MachineIds
    /\ license_key \in LicenseKeys
    /\ now = 0
    /\ ticks = 0
    /\ next_id = 0
    /\ HAS_REQUESTS = TRUE
    /\ HAS_CRYPTO = TRUE
    /\ out_file = NoFile
    /\ calls = <<>>
    /\ dropped = FALSE
    /\ started_on = "none"
    /\ edit = NoEdit
    /\ customers = {}
    /\ admin_records = <<>>
    /\ file_origin = NoOrigin
    /\ license_file \in {None, generate_license_key(Repeat(<<"0">>, 8), Repeat(<<"0">>, 8))}
    /\ license_config = [kind |-> "none", t |-> 0]
    /\ integration = NoIntegration
    /\ ThreadsIdle
    /\ ret = [op |-> "none", raised |-> FALSE]

NextLicense ==
    \/ \E part1, part2 \in HexGroups : GenerateLicenseKey(part1, part2)
    \/ \E text \in CandidateKeys : ValidateLicenseFormat(text)
    \/ \E days_left \in ReminderDays : Reminder(days_left)
    \/ \E line \in ExpiryLines : InstallConfig(line)
    \/ check_license_on_startup
    \/ \E text \in UpdateKeys : update_license(text)
    \/ LicenseTick

SpecLicense == InitLicense /\ [][NextLicense]_vars

(***************************************************************************)
(* The foreground thread and reporter_thread of one UsageTracker, step by  *)
(* step (usage_tracker.py): specification SpecThreads.  The threads share  *)
(* _batch_buffer and pending_reports without a lock; a step is what one    *)
(* thread does between two points where the other can run: a list          *)
(* operation, a statement on the store, the HTTP request.                  *)
(***************************************************************************)
Thread(self) == IF self = "main" THEN main_thread ELSE reporter_thread
Other(self) == IF self = "main" THEN reporter_thread ELSE main_thread

\* the record ids of a sequence of records
IdsOf(records) == {records[i].record_id : i \in DOMAIN records}

threadFrame == <<proc, db_file, backup, license_key, now, ticks, HAS_REQUESTS,
                 out_file, auditVars, dropped, started_on, edit, adminVars,
                 licenseVars, workers>>

\* the thread leaves _flush_batch: record_usage returns the record id, the
\* reporter goes on to _report_pending
LeaveFlush(self) ==
    IF self = "main"
    THEN /\ main_thread' = Idle
         /\ ret' = [op |-> "record_usage", raised |-> FALSE,
                    value |-> main_thread.call.record_id, flush_due |-> TRUE]
         /\ calls' = Append(calls, main_thread.call)
         /\ UNCHANGED reporter_thread
    ELSE /\ reporter_thread' = [pc |-> "report"]
         /\ UNCHANGED <<main_thread, ret, calls>>

\* the thread moves on inside _flush_batch
StayInFlush(self, state) ==
    /\ IF self = "main"
       THEN main_thread' = [state EXCEPT !.call = main_thread.call]
            /\ UNCHANGED reporter_thread
       ELSE reporter_thread' = state /\ UNCHANGED main_thread
    /\ UNCHANGED <<ret, calls>>

\* record_usage up to its flush test: the record is appended to
\* _batch_buffer and to pending_reports
RecordAppend(action_type, sample_name) ==
    /\ proc = "up"
    /\ main_thread.pc = "idle"
    /\ next_id < MaxCalls
    /\ LET r    == NewRecord(action_type, sample_name)
           call == [action_type |-> action_type, sample_name |-> sample_name,
                    at |-> now, record_id |-> r.record_id]
           due  == \/ Len(_batch_buffer) + 1 >= BatchSize
                   \/ now - _last_flush_time > FlushInterval
       IN /\ _batch_buffer' = Append(_batch_buffer, r)
          /\ pending_reports' = Append(pending_reports, PendingEntry(r))
          /\ IF due
             THEN /\ main_thread' = [pc |-> "check", tx |-> <<>>, call |-> call]
                  /\ UNCHANGED <<ret, calls>>
             ELSE /\ main_thread' = Idle
                  /\ ret' = [op |-> "record_usage", raised |-> FALSE,
                             value |-> r.record_id, flush_due |-> FALSE]
                  /\ calls' = Append(calls, call)
    /\ next_id' = next_id + 1
    /\ UNCHANGED <<threadFrame, usage_records, usage_stats, _last_flush_time,
                   reporter_thread>>

\* reporter_thread wakes from time.sleep and calls _flush_batch
ReporterWake ==
    /\ proc = "up"
    /\ reporter_thread.pc = "idle"
    /\ reporter_thread' = [pc |-> "check", tx |-> <<>>]
    /\ UNCHANGED <<threadFrame, usage_records, usage_stats, _batch_buffer,
                   pending_reports, _last_flush_time, next_id, main_thread, ret,
                   calls>>

\* _flush_batch: if not self._batch_buffer: return
FlushCheck(self) ==
    /\ Thread(self).pc = "check"
    /\ IF _batch_buffer = <<>> THEN LeaveFlush(self)
       ELSE StayInFlush(self, [Thread(self) EXCEPT !.pc = "insert"])
    /\ UNCHANGED <<threadFrame, usage_records, usage_stats, _batch_buffer,
                   pending_reports, _last_flush_time, next_id>>

\* _flush_batch: connect and executemany over self._batch_buffer as it is
\* now.  The statement waits while the other thread's transaction is open;
\* it raises when the store refuses it or when a record_id is already
\* stored (record_id is UNIQUE), and the exception ends the flush.
FlushInsert(self) ==
    /\ Thread(self).pc = "insert"
    /\ Other(self).pc # "commit"
    /\ \E io_ok \in BOOLEAN :
         IF io_ok /\ HasTables /\ IdsOf(_batch_buffer) \cap IdsOf(usage_records) = {}
         THEN StayInFlush(self, [Thread(self) EXCEPT !.pc = "commit",
                                                     !.tx = InsertedRows(_batch_buffer)])
         ELSE LeaveFlush(self)
    /\ UNCHANGED <<threadFrame, usage_records, usage_stats, _batch_buffer,
                   pending_reports, _last_flush_time, next_id>>

\* _flush_batch: the counts are taken from self._batch_buffer as it is now,
\* the aggregate row is upserted and the transaction commits
FlushCommit(self) ==
    /\ Thread(self).pc = "commit"
    /\ usage_records' = usage_records \o Thread(self).tx
    /\ usage_stats' = UpsertStats(usage_stats, DateOf(now), _batch_buffer)
    /\ StayInFlush(self, [Thread(self) EXCEPT !.pc = "clear", !.tx = <<>>])
    /\ UNCHANGED <<threadFrame, _batch_buffer, pending_reports, _last_flush_time,
                   next_id>>

\* _flush_batch: self._batch_buffer = [] and the flush time
FlushClear(self) ==
    /\ Thread(self).pc = "clear"
    /\ _batch_buffer' = <<>>
    /\ _last_flush_time' = now
    /\ LeaveFlush(self)
    /\ UNCHANGED <<threadFrame, usage_records, usage_stats, pending_reports, next_id>>

\* _report_pending: the request is built from pending_reports[:100] and
\* posted; status is what the endpoint will answer
ReportSend ==
    /\ reporter_thread.pc = "report"
    /\ IF ~HAS_REQUESTS \/ pending_reports = <<>>
       THEN /\ reporter_thread' = Idle
            /\ ret' = [op |-> "reporter", raised |-> FALSE, sent |-> <<>>,
                       outcome |-> "idle"]
       ELSE /\ \E status \in HttpOutcomes :
                 reporter_thread' = [pc |-> "inflight", status |-> status,
                                     sent |-> Take(pending_reports, ReportBatch)]
            /\ UNCHANGED ret
    /\ UNCHANGED <<threadFrame, usage_records, usage_stats, _batch_buffer,
                   pending_reports, _last_flush_time, next_id, main_thread, calls>>

\* _report_pending: the answer arrives.  On 200 reported_ids is read from
\* pending_reports[:100] as it is now and _mark_as_reported updates the
\* rows; the update waits for an open transaction and may be refused.
ReportResponse ==
    /\ reporter_thread.pc = "inflight"
    /\ IF reporter_thread.status # "200"
       THEN /\ reporter_thread' = Idle
            /\ ret' = [op |-> "reporter", raised |-> FALSE,
                       sent |-> reporter_thread.sent,
                       outcome |-> IF reporter_thread.status = "error"
                                   THEN "exception" ELSE "refused"]
            /\ UNCHANGED usage_records
       ELSE /\ main_thread.pc # "commit"
            /\ \E mark_ok \in BOOLEAN :
                 IF mark_ok /\ HasTables
                 THEN /\ usage_records' =
                            MarkAsReported(usage_records,
                                           IdsOf(Take(pending_reports, ReportBatch)))
                      /\ reporter_thread' = [reporter_thread EXCEPT !.pc = "slice"]
                      /\ UNCHANGED ret
                 ELSE /\ reporter_thread' = Idle
                      /\ ret' = [op |-> "reporter", raised |-> FALSE,
                                 sent |-> reporter_thread.sent,
                                 outcome |-> "exception"]
                      /\ UNCHANGED usage_records
    /\ UNCHANGED <<threadFrame, usage_stats, _batch_buffer, pending_reports,
                   _last_flush_time, next_id, main_thread, calls>>

\* _report_pending: self.pending_reports = self.pending_reports[100:]
ReportSlice ==
    /\ reporter_thread.pc = "slice"
    /\ pending_reports' = Drop(pending_reports, ReportBatch)
    /\ reporter_thread' = Idle
    /\ ret' = [op |-> "reporter", raised |-> FALSE, sent |-> reporter_thread.sent,
               outcome |-> "acked"]
    /\ UNCHANGED <<threadFrame, usage_records, usage_stats, _batch_buffer,
                   _last_flush_time, next_id, main_thread, calls>>

InitThreads ==
    /\ proc = "up"
    /\ db_file = "db"
    /\ backup = FALSE
    /\ usage_records = <<>>
    /\ usage_stats = <<>>
    /\ integrity_checks = <<>>
    /\ history_schema = "tracker"
    /\ flag_columns = FALSE
    /\ _batch_buffer = <<>>
    /\ pending_reports = <<>>
    /\ _last_flush_time = 0
    /\ machine_id \in MachineIds
    /\ license_key \in LicenseKeys
    /\ now = 0
    /\ ticks = 0
    /\ next_id = 0
    /\ HAS_REQUESTS = TRUE
    /\ HAS_CRYPTO = TRUE
    /\ out_file = NoFile
    /\ calls = <<>>
    /\ dropped = FALSE
    /\ started_on = "db"
    /\ edit = NoEdit
    /\ customers = {}
    /\ admin_records = <<>>
    /\ file_origin = NoOrigin
    /\ NoLicense
    /\ ThreadsIdle
    /\ ret = [op |-> "none", raised |-> FALSE]

NextThreads ==
    \/ \E c \in UsageCalls : RecordAppend(c[1], c[2])
    \/ ReporterWake
    \/ \E self \in {"main", "reporter"} : FlushCheck(self)
    \/ \E self \in {"main", "reporter"} : FlushInsert(self)
    \/ \E self \in {"main", "reporter"} : FlushCommit(self)
    \/ \E self \in {"main", "reporter"} : FlushClear(self)
    \/ ReportSend
    \/ ReportResponse
    \/ ReportSlice

SpecThreads == InitThreads /\ [][NextThreads]_vars

(***************************************************************************)
(* The reporter under its scheduling: reporter_thread is a daemon thread   *)
(* that runs a cycle every 300 s for as long as the process is up          *)
(* (usage_tracker.py:476-495), so a cycle that can change the state is     *)
(* eventually run.  Nothing obliges the process to be started again.       *)
(***************************************************************************)
SpecReporterLive == InitReporter /\ [][NextReporter]_vars /\ WF_vars(ReporterCycle)

(***************************************************************************)
(* Two ImportWorker threads of the import dialog, step by step             *)
(* (import_report_dialog.py): specification SpecWorkers.  import_file      *)
(* starts a worker each time a file is chosen or dropped and does not wait *)
(* for the one before; every thread has its own connection to the          *)
(* administrator's store (DatabaseManager._get_connection), and a step is  *)
(* what one worker does on the store in one statement.                     *)
(***************************************************************************)
workerFrame == <<proc, db_file, backup, usage_records, usage_stats, _batch_buffer,
                 pending_reports, _last_flush_time, license_key, now, ticks,
                 next_id, HAS_REQUESTS, auditVars, historyVars, edit, licenseVars,
                 main_thread, reporter_thread>>

\* ImportReportDialog.import_file and ImportWorker.run up to _check_duplicate:
\* the file is read, decrypted with the keys of the store, parsed, validated
StartImport(w) ==
    /\ out_file # NoFile
    /\ workers[w].pc = "idle"
    /\ Len(admin_records) < MaxReports
    /\ LET machine_ids == KnownMachineIds(admin_records)
           decrypted   == _try_decrypt(out_file, customers, machine_ids)
           tried       == [keys |-> customers, machine_ids |-> machine_ids]
       IN IF decrypted = Undecryptable \/ ~_validate_report(JsonLoads(decrypted[1]))
          THEN /\ ret' = [op |-> "import", raised |-> FALSE, outcome |-> "error",
                          decrypted |-> decrypted # Undecryptable, tried |-> tried,
                          worker |-> w]
               /\ UNCHANGED workers
          ELSE /\ workers' = [workers EXCEPT ![w] =
                                 [pc |-> "check", tried |-> tried,
                                  report_data |-> JsonLoads(decrypted[1])]]
               /\ UNCHANGED ret
    /\ UNCHANGED <<workerFrame, customers, admin_records, out_file, file_origin>>

\* ImportWorker.run: is_duplicate = self._check_duplicate(report_data)
CheckDuplicate(w) ==
    /\ workers[w].pc = "check"
    /\ workers' = [workers EXCEPT ![w] =
                      [pc |-> "save", tried |-> workers[w].tried,
                       report_data |-> workers[w].report_data,
                       is_duplicate |-> _check_duplicate(workers[w].report_data,
                                                         admin_records)]]
    /\ UNCHANGED <<workerFrame, customers, admin_records, out_file, file_origin, ret>>

\* ImportWorker.run: result = self._save_to_database(report_data, is_duplicate)
SaveToDatabase(w) ==
    /\ workers[w].pc = "save"
    /\ LET result == SaveResult(workers[w].report_data, workers[w].is_duplicate,
                                customers)
       IN /\ admin_records' =
                 IF result.success
                 THEN Append(admin_records, UsageRecordOf(workers[w].report_data))
                 ELSE admin_records
          /\ ret' = [op |-> "import", raised |-> FALSE, outcome |-> "finished",
                     decrypted |-> TRUE, tried |-> workers[w].tried,
                     report |-> workers[w].report_data, result |-> result,
                     worker |-> w]
    /\ workers' = [workers EXCEPT ![w] = Idle]
    /\ UNCHANGED <<workerFrame, customers, out_file, file_origin>>

\* a client's report file is put in place of the one before while no import
\* is reading or holding it
ReplaceReport(seed, mid) ==
    /\ \A w \in Workers : workers[w].pc = "idle"
    /\ Len(admin_records) < MaxReports
    /\ WriteReport(seed, mid)

NextWorkers ==
    \/ \E key \in CustomerKeys : AddCustomer(key)
    \/ \E seed \in FileSeeds, mid \in MachineIds \cup {None} : ReplaceReport(seed, mid)
    \/ \E w \in Workers : StartImport(w)
    \/ \E w \in Workers : CheckDuplicate(w)
    \/ \E w \in Workers : SaveToDatabase(w)

SpecWorkers == InitImport /\ [][NextWorkers]_vars

(***************************************************************************)
(* The suspicious flags and the check history through the life of a        *)
(* ledger: audits (integrity_verifier.py) while no tracker runs, and runs  *)
(* of the tracker (usage_tracker.py) in between: specification SpecFlags.  *)
(***************************************************************************)
\* the record ids of the rows with suspicious_flag = 1
FlaggedIds(rows) ==
    {rows[i].record_id : i \in {j \in DOMAIN rows : rows[j].suspicious_flag = 1}}

\* UPDATE usage_records SET suspicious_flag = 0, suspicious_reason = NULL
\* WHERE record_id = ?
ClearFlag(rows, record_id) ==
    [i \in DOMAIN rows |->
        IF rows[i].record_id = record_id
        THEN [rows[i] EXCEPT !.suspicious_flag = 0, !.suspicious_reason = None]
        ELSE rows[i]]

\* IntegrityVerifier.clear_suspicious_flag(record_id): the UPDATE names the
\* columns that only _mark_record_suspicious adds to the table
clear_suspicious_flag(record_id) ==
    /\ Auditable
    /\ IF flag_columns
       THEN /\ usage_records' = ClearFlag(usage_records, record_id)
            /\ ret' = [op |-> "clear_suspicious_flag", raised |-> FALSE,
                       record_id |-> record_id, before |-> usage_records,
                       value |-> record_id \in IdsOf(usage_records)]
       ELSE /\ ret' = [op |-> "clear_suspicious_flag", raised |-> TRUE,
                       record_id |-> record_id, before |-> usage_records]
            /\ UNCHANGED usage_records
    /\ UNCHANGED <<auditFrame, integrity_checks, history_schema, flag_columns,
                   machine_id, next_id, edit>>

\* IntegrityVerifier.generate_integrity_report(): verify_all_records with
\* mark_suspicious=False, then get_suspicious_records and the history
generate_integrity_report ==
    /\ Auditable
    /\ Len(integrity_checks) < MaxChecks
    /\ LET records            == OrderByTimestamp(usage_records)
           suspicious_records == SuspiciousRecords(records)
           total_records      == Len(records)
           valid_records      == total_records - Len(suspicious_records)
           overall_checksum   == _calculate_overall_checksum(records)
           row == [check_time       |-> now,
                   total_records    |-> total_records,
                   valid_records    |-> valid_records,
                   invalid_records  |-> total_records - valid_records,
                   overall_checksum |-> overall_checksum]
       IN IF history_schema = "tracker"
          THEN /\ ret' = [op |-> "generate_integrity_report", raised |-> TRUE]
               /\ UNCHANGED <<integrity_checks, history_schema, edit>>
          ELSE /\ history_schema' = "verifier"
               /\ integrity_checks' = Append(integrity_checks, row)
               /\ ret' = [op |-> "generate_integrity_report", raised |-> FALSE,
                          value |->
                              [suspicious_records |->
                                   IF flag_columns THEN FlaggedIds(usage_records)
                                   ELSE {},
                               check_history |-> Len(integrity_checks'),
                               summary |->
                                   [total_records   |-> total_records,
                                    valid_records   |-> valid_records,
                                    invalid_records |-> Len(suspicious_records)]]]
               /\ edit' = [kind |-> "pass", n |-> edit.n, ids |-> {},
                           fingerprint |-> overall_checksum]
    /\ UNCHANGED <<auditFrame, usage_records, flag_columns, machine_id, next_id>>

\* the ids clear_suspicious_flag is called with: those of the rows, and one
\* that no row has
ClearIds == {Uuid(n) : n \in 0..MaxRows}

NextFlags ==
    \/ \E kind \in {"valid", "forged"} : InsertRecord(0, kind)
    \/ \E i \in 1..MaxRows : TamperChecksum(i)
    \/ \E mark_suspicious \in BOOLEAN : verify_all_records(mark_suspicious)
    \/ generate_integrity_report
    \/ \E record_id \in ClearIds : clear_suspicious_flag(record_id)
    \/ Startup
    \/ \E c \in UsageCalls : record_usage(c[1], c[2])
    \/ ReporterCycle
    \/ get_usage_stats(DefaultDays)
    \/ export_usage_report(DefaultDays)
    \/ Shutdown

SpecFlags == InitAudit /\ [][NextFlags]_vars

(***************************************************************************)
(* Properties of the tracker (specification Spec).                         *)
(***************************************************************************)
\* the checksum recomputed from a record's own fields is the stored one
Verifies(r) == _calculate_checksum(checksum_data(r)) = r.checksum

\* C1: every record made by record_usage verifies against its own checksum,
\* while it waits in the batch buffer (right after the call) and as a stored
\* row (after the flush and after the store is reopened); verify_integrity
\* on a ledger holding only such records reports valid_records equal to
\* total_records and integrity_ok true.
C1_RecordsVerify ==
    /\ \A i \in DOMAIN _batch_buffer : Verifies(_batch_buffer[i])
    /\ \A i \in DOMAIN usage_records : Verifies(usage_records[i])
    /\ (ret.op = "verify_integrity" /\ ~ret.raised) =>
           /\ ret.value.valid_records = ret.value.total_records
           /\ ret.value.integrity_ok

\* a reopened tracker has verified a ledger of at least one stored record
\* (the report queue is empty only because the process was restarted)
C1_Witness ==
    /\ proc = "up"
    /\ pending_reports = <<>>
    /\ ret.op = "verify_integrity"
    /\ ~ret.raised
    /\ ret.value.total_records >= 1

\* the calls of the history with the given action type
CallsOf(a) == Count(calls, LAMBDA c : c.action_type = a)

\* C7: after n >= 1 record_usage calls on an empty ledger, all of them
\* flushed and none lost, get_usage_stats over a period that covers them
\* reports total_records = n, unique_samples = the number of distinct sample
\* names, and per-action totals equal to the number of calls of each type.
C7_StatsMatchCalls ==
    ( /\ ret.op = "get_usage_stats"
      /\ ~ret.raised
      /\ Len(calls) >= 1
      /\ _batch_buffer = <<>>
      /\ dropped = FALSE
      /\ \A k \in DOMAIN calls :
             DateOf(calls[k].at) >= DateOf(now) - ret.value.period_days )
    => /\ ret.value.total_records = Len(calls)
       /\ ret.value.unique_samples =
              Cardinality({calls[k].sample_name : k \in DOMAIN calls})
       /\ ret.value.total_loads = CallsOf("load_sample")
       /\ ret.value.total_exports = CallsOf("export_data")
       /\ ret.value.total_splits = CallsOf("split_metabolites")

\* two flushed calls on the same sample name, with different action types,
\* have been counted
C7_Witness ==
    /\ ret.op = "get_usage_stats"
    /\ ~ret.raised
    /\ _batch_buffer = <<>>
    /\ dropped = FALSE
    /\ Len(calls) = 2
    /\ calls[1].sample_name = calls[2].sample_name
    /\ calls[1].action_type # calls[2].action_type
    /\ ret.value.total_records = 2
    /\ ret.value.unique_samples = 1

\* C8: a tracker started on a corrupt store keeps the damaged file as a
\* backup and runs on a recreated, empty working ledger, so that the
\* operations of that instance work: get_usage_stats returns, and once the
\* instance's calls are flushed it counts them.
C8_RecoveryAsClaimed ==
    (proc = "up" /\ started_on \in {"unsound", "garbage"}) =>
        /\ backup
        /\ HasTables
        /\ (ret.op = "get_usage_stats") =>
               /\ ~ret.raised
               /\ (_batch_buffer = <<>> /\ dropped = FALSE
                   /\ ret.value.period_days = DefaultDays)
                      => ret.value.total_records = Len(calls)

(***************************************************************************)
(* Properties of the background reporter (specification SpecReporter).     *)
(***************************************************************************)
\* a step of the reporter's cycle
ReporterStep ==
    /\ ret'.op = "reporter"
    /\ UNCHANGED <<licenseVars, threadVars, adminVars, edit, proc, next_id, ticks>>

\* the stored row of a record id is marked as reported
MarkedReported(recs, id) ==
    \E i \in DOMAIN recs :
        /\ recs[i].record_id = id
        /\ recs[i].reported = 1
        /\ recs[i].report_time # NullInt

\* the record ids marked as reported
ReportedIds(recs) == {recs[i].record_id : i \in {j \in DOMAIN recs : recs[j].reported = 1}}

\* C9: a reporting cycle sends at most ReportBatch records from the head of
\* the queue in append order; when the endpoint answers 200 the sent records
\* are marked reported with a report time and leave the queue; on another
\* status, a timeout or an exception nothing is marked and the queue is
\* unchanged.
C9_ReportAsClaimed ==
    [][ ReporterStep =>
          /\ Len(ret'.sent) <= ReportBatch
          /\ ret'.sent = Take(pending_reports, Len(ret'.sent))
          /\ (ret'.outcome = "acked") =>
                 /\ \A k \in DOMAIN ret'.sent :
                        MarkedReported(usage_records', ret'.sent[k].record_id)
                 /\ pending_reports' = Drop(pending_reports, Len(ret'.sent))
          /\ (ret'.outcome \in {"refused", "exception"}) =>
                 /\ ReportedIds(usage_records') = ReportedIds(usage_records)
                 /\ pending_reports' = pending_reports
      ]_vars

(***************************************************************************)
(* Properties of the integrity verifier (specification SpecAudit).         *)
(***************************************************************************)
\* C2: a record whose stored checksum was valid, after one of its
\* checksummed fields is changed to a different value or after it is taken
\* to a verifier of another machine identity, the stored checksum left
\* untouched, makes verify_record return false.
C2_ChecksumSensitive ==
    ( /\ ret.op = "verify_record"
      /\ edit.kind \in {"field", "machine"}
      /\ ret.record_id \in edit.ids )
    => ret.value = FALSE

\* verify_record has rejected a record that was valid before one of its
\* fields was changed
C2_Witness ==
    /\ ret.op = "verify_record"
    /\ edit.kind = "field"
    /\ ret.record_id \in edit.ids
    /\ ret.value = FALSE

\* the rows whose stored checksum differs from the recomputed one
Mismatching(rows) ==
    {i \in DOMAIN rows : calculate_checksum(checksum_data(rows[i])) # rows[i].checksum}

C10_FingerprintAsClaimed ==
    (ret.op = "verify_all_records" /\ ~ret.raised) =>
        /\ (ret.since.kind \in {"field", "checksum", "insert", "delete"})
               => ret.value.overall_checksum # ret.since.fingerprint
        /\ (ret.since.kind = "pass")
               => ret.value.overall_checksum = ret.since.fingerprint

(***************************************************************************)
(* Properties of the import (specification SpecImport).                    *)
(***************************************************************************)
\* C4: for a file encrypted under a key derived from seed S, the import
\* decrypts it if and only if S is among the candidate seeds it tries (the
\* customers' license keys and the known machine ids).
C4_DecryptsIffCandidate ==
    (ret.op = "import" /\ file_origin.source # "none" /\ file_origin.seed # None) =>
        (ret.decrypted <=>
             file_origin.seed \in ret.tried.keys \cup ret.tried.machine_ids)

\* a run of ImportWorker
ImportStep ==
    /\ ret'.op = "import"
    /\ UNCHANGED <<customers, out_file, next_id, ticks>>

\* a committed row has the report's license key, machine identity and period
Committed(report, rows) ==
    \E i \in DOMAIN rows :
        /\ rows[i].license_key = report.license_key
        /\ rows[i].machine_id = report.machine_id
        /\ rows[i].report_date = report.report_date
        /\ rows[i].period_start = report.period_start
        /\ rows[i].period_end = report.period_end

\* C5: the import of a report whose license key, machine identity and period
\* are those of a committed report is flagged duplicate, its result carries
\* the customer, license key, machine id, report date and usage statistics,
\* no row is inserted and every customer's aggregated totals stay the same.
C5_DuplicateAsClaimed ==
    [][ (ImportStep /\ ret'.outcome = "finished"
                    /\ Committed(ret'.report, admin_records))
        => /\ ret'.result.is_duplicate
           /\ {"customer_id", "license_key", "machine_id", "report_date",
               "usage_stats"} \subseteq DOMAIN ret'.result
           /\ ret'.result.license_key = ret'.report.license_key
           /\ ret'.result.machine_id = ret'.report.machine_id
           /\ ret'.result.report_date = ret'.report.report_date
           /\ ret'.result.usage_stats = ret'.report.usage_stats
           /\ admin_records' = admin_records
           /\ \A key \in customers :
                  get_customer_usage(admin_records', CustomerIdOf(key))
                      = get_customer_usage(admin_records, CustomerIdOf(key))
      ]_vars

\* C6: the file written by export_usage_report opens with the key derived
\* from the tracker's license key and not with the one derived from its
\* machine id; an administrator whose customers include that license key and
\* who knows no machine id decrypts it through ImportWorker and obtains the
\* license_key, machine_id and usage_stats that were exported.
C6_ExportOpensWithLicenseKey ==
    /\ (ret.op = "export_usage_report" /\ ~ret.raised /\ HAS_CRYPTO) =>
           /\ DataEncryptor_decrypt(license_key, out_file) = <<JsonText(ret.value)>>
           /\ DataEncryptor_decrypt(machine_id, out_file) = Undecryptable
    /\ (ret.op = "import" /\ file_origin.source = "export"
            /\ file_origin.report.license_key \in ret.tried.keys
            /\ ret.tried.machine_ids = {}) =>
           /\ ret.decrypted
           /\ ret.outcome = "finished"
           /\ ret.report.license_key = license_key
           /\ ret.report.machine_id = machine_id
           /\ ret.report.license_key = file_origin.report.license_key
           /\ ret.report.machine_id = file_origin.report.machine_id
           /\ ret.report.usage_stats = file_origin.report.usage_stats

\* an exported report that counts stored records has been imported by an
\* administrator who knew the license key and no machine id
C6_Witness ==
    /\ ret.op = "import"
    /\ file_origin.source = "export"
    /\ file_origin.report.license_key \in ret.tried.keys
    /\ ret.tried.machine_ids = {}
    /\ ret.decrypted
    /\ ret.outcome = "finished"
    /\ ret.result.success
    /\ ret.report.usage_stats.total_records >= 1

(***************************************************************************)
(* Properties of the integrity codec (specification SpecCodec).            *)
(***************************************************************************)
\* C11: for every machine id and every data dictionary d,
\* decrypt_and_verify(encrypt_with_integrity(d)) by an encryptor with the
\* same machine id returns exactly d, and a MultiKeyDecryptor whose known
\* machine ids include the encrypting one returns exactly d as well.
C11_RoundTrip ==
    /\ ret.op = "decrypt_and_verify" => ret.value = <<file_origin.report>>
    /\ (ret.op = "multi_key_decrypt"
        /\ \E i \in DOMAIN ret.known : ret.known[i] = file_origin.seed)
           => ret.value = <<file_origin.report>>

(***************************************************************************)
(* Properties of the license keys and checks (specification SpecLicense).  *)
(***************************************************************************)
\* the shape DESI-XXXXXXXX-YYYYYYYY-CCCC, position by position: the prefix,
\* the three separators, two groups of eight hexadecimal characters and four
\* hexadecimal characters equal to the truncated hash of the two groups
WellFormed(s) ==
    /\ Len(s) = 27
    /\ SubSeq(s, 1, 4) = DESI
    /\ s[5] = "-" /\ s[14] = "-" /\ s[23] = "-"
    /\ \A i \in (6..13) \cup (15..22) \cup (24..27) : s[i] \in HexChars
    /\ SubSeq(s, 24, 27) =
           LicenseGenerator_calculate_checksum(SubSeq(s, 6, 13) \o SubSeq(s, 15, 22))

C13_MalformedRejected ==
    (ret.op = "validate_license_format" /\ ~WellFormed(ret.arg)) => ~ret.value

\* C14: for days_left = -1 the reminder level is 'expired' and the
\* feature-restriction predicate is true; for days_left = 10 the reminder
\* level is 'urgent' and the feature-restriction predicate is false.
C14_ReminderAsClaimed ==
    ret.op = "reminder" =>
        /\ ret.days_left = 0 - 1 => (ret.level = "expired" /\ ret.restrict)
        /\ ret.days_left = 10 => (ret.level = "urgent" /\ ~ret.restrict)

\* C14 as amended: for days_left = -1 the level is 'expired' and the
\* restriction predicate is true; for days_left = 10 the level is 'warning'
\* and the restriction predicate is false.
C14_ReminderLevels ==
    ret.op = "reminder" =>
        /\ ret.days_left = 0 - 1 => (ret.level = "expired" /\ ret.restrict)
        /\ ret.days_left = 10 => (ret.level = "warning" /\ ~ret.restrict)

\* the reminder has been asked about ten days
C14_Witness ==
    /\ ret.op = "reminder"
    /\ ret.days_left = 10
    /\ ~ret.restrict

RecordsOn(d) == {i \in DOMAIN usage_records : DateOf(usage_records[i].timestamp) = d}
\* those of them with the given action type
RecordsOnOf(d, a) == {i \in RecordsOn(d) : usage_records[i].action_type = a}
\* the aggregate row of a date; a date without a row counts nothing
StatsRow(d) == IF d \in DOMAIN usage_stats THEN usage_stats[d] ELSE NoStatsRow

\* C19: for every date d the daily aggregate row of d has total_operations
\* equal to the number of stored records whose timestamp falls on d, and
\* samples_loaded / samples_exported / samples_split equal to the number of
\* those records with action type load_sample / export_data /
\* split_metabolites.
C19_AggregatesMatchRecords ==
    \A d \in DOMAIN usage_stats \cup
             {DateOf(usage_records[i].timestamp) : i \in DOMAIN usage_records} :
        /\ StatsRow(d).total_operations = Cardinality(RecordsOn(d))
        /\ StatsRow(d).samples_loaded = Cardinality(RecordsOnOf(d, "load_sample"))
        /\ StatsRow(d).samples_exported = Cardinality(RecordsOnOf(d, "export_data"))
        /\ StatsRow(d).samples_split = Cardinality(RecordsOnOf(d, "split_metabolites"))

\* a step of record_usage
RecordStep ==
    /\ ret'.op = "record_usage"
    /\ next_id' = next_id + 1

\* C20: record_usage attempts a flush exactly when, after appending, the
\* buffer holds at least batch_size records or more than 60 seconds have
\* passed since the last flush, and otherwise leaves the record buffered;
\* when it returns after a flush that wrote its rows the buffer is empty,
\* and then, as when no flush was due, the buffer holds fewer than
\* batch_size records.
C20_FlushTriggers ==
    [][ RecordStep =>
          LET flushed == usage_records' # usage_records
          IN /\ ret'.flush_due =
                    ( \/ Len(_batch_buffer) + 1 >= BatchSize
                      \/ now - _last_flush_time > FlushInterval )
             /\ ~ret'.flush_due =>
                    /\ Len(_batch_buffer') = Len(_batch_buffer) + 1
                    /\ _batch_buffer'[Len(_batch_buffer')].record_id = ret'.value
                    /\ SubSeq(_batch_buffer', 1, Len(_batch_buffer)) = _batch_buffer
                    /\ ~flushed
             /\ flushed => (ret'.flush_due /\ _batch_buffer' = <<>>)
             /\ (flushed \/ ~ret'.flush_due) => Len(_batch_buffer') < BatchSize
      ]_vars

\* record_usage has returned after a flush that the clock made due: it
\* wrote a single record, fewer than the batch size
C20_Witness ==
    /\ ret.op = "record_usage"
    /\ ret.flush_due
    /\ _batch_buffer = <<>>
    /\ Len(usage_records) = 1
    /\ Len(usage_records) < BatchSize
    /\ now - usage_records[1].timestamp = 0
    /\ ticks >= 1

\* the record_usage calls that have returned: every id handed out, except
\* the one of a call still inside its flush
ReturnedIds ==
    {Uuid(k) : k \in 1..next_id} \ (IF main_thread.pc = "idle" THEN {}
                                    ELSE {main_thread.call.record_id})

\* the number of stored rows of a record id
RowsOf(id) == Cardinality({i \in DOMAIN usage_records : usage_records[i].record_id = id})

RECURSIVE CountedIn(_, _)
\* the operations counted by the aggregate rows of a set of dates
CountedIn(stats, dates) ==
    IF dates = {} THEN 0
    ELSE LET d == CHOOSE x \in dates : TRUE
         IN stats[d].total_operations + CountedIn(stats, dates \ {d})

\* C16: under every interleaving of the foreground record_usage calls and
\* their flushes with the reporter thread's _flush_batch, a record whose
\* record_usage returned is never stored twice and never lost (it is stored
\* or still buffered), and once both threads are idle and the buffer is
\* empty every returned record is stored exactly once and the daily
\* aggregates count exactly the returned records.
C16_NoRecordLost ==
    /\ \A id \in ReturnedIds :
         /\ RowsOf(id) <= 1
         /\ RowsOf(id) = 1 \/ id \in IdsOf(_batch_buffer)
    /\ (main_thread.pc = "idle" /\ reporter_thread.pc = "idle" /\ _batch_buffer = <<>>)
         => CountedIn(usage_stats, DOMAIN usage_stats) = Cardinality(ReturnedIds)

\* the ids of the request in flight that the endpoint answers with 200
AckedIds ==
    IF reporter_thread.pc \in {"inflight", "slice"} /\ reporter_thread.status = "200"
    THEN IdsOf(reporter_thread.sent) ELSE {}

\* the ids of the stored rows with reported = 1
MarkedIds == {usage_records[i].record_id :
                i \in {j \in DOMAIN usage_records : usage_records[j].reported = 1}}

\* C17: under every interleaving of _report_pending with record_usage, a
\* step marks a record reported = 1 or removes it from pending_reports only
\* if the record was in the request the endpoint acknowledged with 200; a
\* record appended while the request is in flight is neither marked nor
\* dropped by its completion.
C17_OnlyAckedLeave ==
    [][/\ (MarkedIds' \ MarkedIds) \subseteq AckedIds
       /\ (IdsOf(pending_reports) \ IdsOf(pending_reports')) \subseteq AckedIds]_vars

\* the record with the n-th id is in the ledger with reported = 0 while the
\* tracker runs with the requests library available
StoredUnreported(n) ==
    /\ proc = "up"
    /\ HAS_REQUESTS
    /\ \E i \in DOMAIN usage_records :
         usage_records[i].record_id = Uuid(n) /\ usage_records[i].reported = 0

\* the reporter's last cycle posted a request that contains the n-th id
InPushAttempt(n) == ret.op = "reporter" /\ Uuid(n) \in IdsOf(ret.sent)

\* C18: every record that is in the ledger with reported = 0 is eventually
\* included in a push attempt of the background reporter for as long as the
\* process runs, also when it was left unreported by an earlier run and the
\* tracker was started again on the same store (the part of the claim about
\* records being marked after a 200 answer presupposes this part).
C18_UnreportedPushed ==
    \A n \in 1..MaxCalls : StoredUnreported(n) ~> (InPushAttempt(n) \/ proc = "down")

(***************************************************************************)
(* Properties of a failing flush and of the statistics (specification      *)
(* Spec).                                                                  *)
(***************************************************************************)
\* the ids of the records the step had to flush, in append order: those of
\* the buffer, and the new record's when the step is a record_usage call
ToFlush ==
    LET ids == [i \in DOMAIN _batch_buffer |-> _batch_buffer[i].record_id]
    IN IF RecordStep THEN Append(ids, ret'.value) ELSE ids

\* a step in which _flush_batch ran on a non-empty buffer and failed
FlushFailed ==
    /\ proc = "up" /\ proc' = "up"
    /\ \/ RecordStep /\ ret'.flush_due
       \/ ret'.op = "_flush_batch" /\ _batch_buffer # <<>>
    /\ _batch_buffer' # <<>>

\* C21: when _flush_batch fails no record of the batch and no aggregate
\* increment is committed, the buffer keeps all its records in append
\* order and record_usage still returns the record id without raising; a
\* flush that succeeds commits each buffered record exactly once, in
\* order, and adds exactly their number to the aggregates.
C21_FailedFlushKeepsBatch ==
    [][ /\ FlushFailed =>
             /\ usage_records' = usage_records
             /\ usage_stats' = usage_stats
             /\ RecordStep =>
                  /\ ~ret'.raised
                  /\ ret'.value = Uuid(next_id')
                  /\ Len(_batch_buffer') = Len(_batch_buffer) + 1
                  /\ _batch_buffer'[Len(_batch_buffer')].record_id = ret'.value
                  /\ SubSeq(_batch_buffer', 1, Len(_batch_buffer)) = _batch_buffer
             /\ ~RecordStep => _batch_buffer' = _batch_buffer
        /\ (proc = "up" /\ usage_records' # usage_records) =>
             /\ Len(usage_records') = Len(usage_records) + Len(ToFlush)
             /\ SubSeq(usage_records', 1, Len(usage_records)) = usage_records
             /\ \A i \in DOMAIN ToFlush :
                  /\ usage_records'[Len(usage_records) + i].record_id = ToFlush[i]
                  /\ ToFlush[i] \notin IdsOf(usage_records)
             /\ Cardinality(IdsOf(usage_records')) = Len(usage_records')
             /\ _batch_buffer' = <<>>
             /\ CountedIn(usage_stats', DOMAIN usage_stats')
                  = CountedIn(usage_stats, DOMAIN usage_stats) + Len(ToFlush)
      ]_vars

\* record_usage has returned its record id from a call whose flush was due
\* and failed on a usable store: the whole batch is still buffered and
\* nothing is stored
C21_Witness ==
    /\ ret.op = "record_usage"
    /\ ret.flush_due
    /\ ~ret.raised
    /\ HasTables
    /\ Len(_batch_buffer) = BatchSize
    /\ _batch_buffer[BatchSize].record_id = ret.value
    /\ usage_records = <<>>
    /\ usage_stats = <<>>

\* C22: the statistics get_usage_stats returns (and export_usage_report
\* writes) count every record for which record_usage returned before the
\* call and whose time lies in the requested period, the records still in
\* the write buffer included.
C22_StatsCountBuffered ==
    ( /\ ret.op = "get_usage_stats"
      /\ ~ret.raised
      /\ Len(calls) >= 1
      /\ dropped = FALSE
      /\ \A k \in DOMAIN calls :
             DateOf(calls[k].at) >= DateOf(now) - ret.value.period_days )
    => /\ ret.value.total_records = Len(calls)
       /\ ret.value.total_loads = CallsOf("load_sample")
       /\ ret.value.total_exports = CallsOf("export_data")
       /\ ret.value.total_splits = CallsOf("split_metabolites")

(***************************************************************************)
(* Property of concurrent imports (specification SpecWorkers).             *)
(***************************************************************************)
\* C23: when two imports of the same report run concurrently, in no
\* interleaving does the administrator's store hold two rows with the same
\* license key, report date and machine id (stated for reports that name a
\* machine id, the ones the duplicate check can compare).
C23_NoTwinRows ==
    \A i, j \in DOMAIN admin_records :
        ( /\ admin_records[i].machine_id # None
          /\ admin_records[i].license_key = admin_records[j].license_key
          /\ admin_records[i].report_date = admin_records[j].report_date
          /\ admin_records[i].machine_id = admin_records[j].machine_id )
        => i = j

(***************************************************************************)
(* Properties of the suspicious flags and of the check history             *)
(* (specification SpecFlags).                                              *)
(***************************************************************************)
\* the row of a record id
RowOf(rows, id) == rows[CHOOSE i \in DOMAIN rows : rows[i].record_id = id]

\* C24: a suspicious flag stays set through every later verification pass
\* (with or without marking), flush and report cycle; a step unsets it only
\* when it is clear_suspicious_flag for that record id; and only
\* verify_all_records sets a flag, on a record whose stored checksum
\* differs from the recomputed one.
C24_FlagsStay ==
    [][ /\ \A id \in FlaggedIds(usage_records) :
              \/ id \in FlaggedIds(usage_records')
              \/ /\ ret'.op = "clear_suspicious_flag"
                 /\ ret'.record_id = id
        /\ \A id \in FlaggedIds(usage_records') \ FlaggedIds(usage_records) :
              /\ ret'.op = "verify_all_records"
              /\ RowOf(usage_records, id).checksum
                     # Sha256(JsonDumps(checksum_data(RowOf(usage_records, id)), FALSE)
                              \o <<"|">> \o machine_id \o <<"|">> \o SECRET_SEED)
      ]_vars

\* a flag set by a marking pass is still there after a run of the tracker
\* that stored and reported a record and after a second pass, the one of
\* generate_integrity_report
C24_Witness ==
    /\ ret.op = "generate_integrity_report"
    /\ ~ret.raised
    /\ Len(integrity_checks) = 2
    /\ ret.value.suspicious_records # {}
    /\ \E i \in DOMAIN usage_records : usage_records[i].reported = 1

\* C25: clear_suspicious_flag(id) does not fail, also on a ledger in which
\* no record has ever been flagged; it changes no record other than id, the
\* number of flagged records drops by exactly one when id was flagged and
\* nothing changes when it was not; applying it again leaves the ledger as
\* it is.
C25_ClearIdempotent ==
    (ret.op = "clear_suspicious_flag") =>
        /\ ~ret.raised
        /\ Len(usage_records) = Len(ret.before)
        /\ \A i \in DOMAIN usage_records :
               ret.before[i].record_id # ret.record_id
                   => usage_records[i] = ret.before[i]
        /\ ret.record_id \in FlaggedIds(ret.before)
               => Cardinality(FlaggedIds(usage_records))
                      = Cardinality(FlaggedIds(ret.before)) - 1
        /\ ret.record_id \notin FlaggedIds(ret.before)
               => usage_records = ret.before
        /\ ClearFlag(usage_records, ret.record_id) = usage_records

\* a step of a verification pass: verify_all_records, or the pass inside
\* generate_integrity_report
PassStep == ret'.op \in {"verify_all_records", "generate_integrity_report"}

\* C26: every pass completes and appends exactly one row with
\* invalid = total - valid to the check history, on a store created by the
\* tracker as on one without a history table; no step changes or removes an
\* existing history row; the summary of generate_integrity_report has
\* total_records = valid_records + invalid_records.
C26_HistoryAppendOnly ==
    [][ /\ Len(integrity_checks') >= Len(integrity_checks)
        /\ SubSeq(integrity_checks', 1, Len(integrity_checks)) = integrity_checks
        /\ PassStep =>
             /\ ~ret'.raised
             /\ Len(integrity_checks') = Len(integrity_checks) + 1
             /\ LET row == integrity_checks'[Len(integrity_checks')]
                IN /\ row.total_records = Len(usage_records)
                   /\ row.invalid_records = row.total_records - row.valid_records
             /\ ret'.op = "generate_integrity_report" =>
                  ret'.value.summary.total_records
                      = ret'.value.summary.valid_records
                        + ret'.value.summary.invalid_records
      ]_vars

\* what a record is: the fields the checksum covers, and the checksum
Identity(row) ==
    [record_id   |-> row.record_id,
     timestamp   |-> row.timestamp,
     action_type |-> row.action_type,
     sample_name |-> row.sample_name,
     sample_hash |-> row.sample_hash,
     checksum    |-> row.checksum]

\* a step of the subsystem itself: not a change made to the ledger file from
\* outside, and not the recovery of a corrupt file at startup
OwnStep == ret'.op # "edit" /\ ~(ret'.op = "startup" /\ backup')

\* C27: apart from corruption recovery at startup, no operation (flush,
\* marking as reported, verify_all_records with or without marking,
\* clear_suspicious_flag, statistics, export) changes the record_id,
\* timestamp, action_type, sample_name, sample_hash or checksum of a record
\* in the ledger, and none deletes a record.
C27_RecordsKeepIdentity ==
    [][ OwnStep =>
          /\ Len(usage_records') >= Len(usage_records)
          /\ \A i \in DOMAIN usage_records :
                 Identity(usage_records'[i]) = Identity(usage_records[i])
      ]_vars

\* a flagged and reported record, seen by the tracker's export after a
\* restart
C27_Witness ==
    /\ ret.op = "export_usage_report"
    /\ \E i \in DOMAIN usage_records :
           /\ usage_records[i].reported = 1
           /\ \E j \in DOMAIN usage_records : usage_records[j].suspicious_flag = 1
    /\ \E k \in DOMAIN integrity_checks : TRUE

\* the plaintext text fields of a ledger row: every column but the blob
\* (the timestamp, the action label and the flags are not free text)
RowText(row) == {row.record_id, row.sample_name, row.sample_hash, row.checksum}
\* the text fields of a record of the pushed payload
PayloadText(entry) == {entry.record_id, entry.sample_hash, entry.checksum}
\* the text fields of the statistics
StatsText(stats) == {stats.license_key, stats.machine_id}
\* the text fields of the exported report
ReportText(report) ==
    {report.license_key, report.machine_id}
        \cup {report.integrity_check.tampered_ids[k] :
                  k \in DOMAIN report.integrity_check.tampered_ids}
\* the rows record_usage wrote: they carry a details blob
TrackerRows == {i \in DOMAIN usage_records :
                    usage_records[i].details_encrypted # NoFile}

\* the payload, the statistics and the report carry no raw subject name
NoNameLeavesMachine ==
    \A name \in SampleNames :
        /\ (ret.op = "reporter") =>
               \A k \in DOMAIN ret.sent : name \notin PayloadText(ret.sent[k])
        /\ (ret.op = "get_usage_stats" /\ ~ret.raised) =>
               name \notin StatsText(ret.value)
        /\ (ret.op = "export_usage_report" /\ ~ret.raised) =>
               name \notin ReportText(ret.value)

C29_PlainOnlyWhenDegraded ==
    HAS_CRYPTO =>
        /\ (ret.op = "export_usage_report" /\ ~ret.raised) =>
               out_file.scheme # "base64"
        /\ (ret.op = "import" /\ out_file.scheme = "base64") => ~ret.decrypted

\* a step in which a license check ran: check_license_on_startup, or an
\* update_license that got past the format check of its argument
LicenseCheckStep ==
    /\ now' = now
    /\ license_config' = license_config
    /\ \/ ret'.op = "check_license_on_startup"
       \/ ret'.op = "update_license" /\ validate_license_format(ret'.arg)

\* C30: after any sequence of check_license_on_startup and update_license
\* calls a LicenseIntegration object never has is_valid and is_expired both
\* true, and features_restricted is true exactly when the most recent
\* license check found the license expired.
C30_LicenseFlagsAgree ==
    [][ /\ ~(integration'.is_valid /\ integration'.is_expired)
        /\ LicenseCheckStep =>
             (integration'.features_restricted
                 <=> CheckLicense(NoIntegration, license_file').obj.is_expired)
      ]_vars

====
